---- MODULE Spec2Model ----
(***************************************************************************)
(* Resilience layer of otel-integrator: validators/resilience_manager.py.  *)
(* CircuitBreaker (per-service state machine), RetryHandler (attempt       *)
(* driver with exponential backoff), ResilienceManager (name -> breaker /  *)
(* handler registries, execute_with_resilience, check_service_health,      *)
(* reset_circuit_breaker, graceful_degradation).                           *)
(*                                                                         *)
(* Threads are Python threads: every assignment to a field of a breaker,   *)
(* every read of one and every single dictionary operation is a step, and  *)
(* a thread switch may happen between any two of them.  A `with self.lock` *)
(* block keeps other threads out of the `with` blocks of the same breaker, *)
(* not out of the reads that take no lock (lines 39, 148, 150, 151).       *)
(***************************************************************************)
EXTENDS Integers, Sequences, FiniteSets, TLC

(***************************************************************************)
(* Program constants: the dataclass defaults.                              *)
(***************************************************************************)
DefaultMaxAttempts == 3
DefaultBaseDelay == 1
DefaultMaxDelay == 60
DefaultExponentialBase == 2
DefaultFailureThreshold == 5
DefaultRecoveryTimeout == 60

(***************************************************************************)
(* Bounds of the model.                                                    *)
(***************************************************************************)
\* The clock ticks from StartTime up to MaxTime (seconds), and new calls
\* start while it is within MaxTime; it runs on while a thread sleeps.
MaxTime == 3
\* random.random() is drawn from {0/JitterDen, ..., (JitterDen-1)/JitterDen}.
JitterDen == 2

\* time.time() at construction of the manager (seconds; any positive value).
StartTime == 1

\* Time is held in units of 1/DelayScale seconds, the unit in which the
\* jitter factor 0.5 + r * 0.5, with r = k/JitterDen, is a whole number:
\* factor = (JitterDen + k) / DelayScale.  The clock now, last_failure_time,
\* delays and wake-up times are in this unit; the configs hold seconds.
DelayScale == 2 * JitterDen

\* A number of seconds, in the unit of the clock.
Seconds(s) == s * DelayScale
\* Retry configurations tried on RetryHandler alone: max_attempts,
\* base_delay and max_delay, and exponential_base up to these values.
MaxAttempts == 4
MaxDelay == 4
MaxBase == 3

Threads == {1, 2}
Services == {"svc", "svc_fallback"}

\* Exception classes an operation may raise; both derive from Exception.
OpErrorClasses == {"ConnectionError", "ValueError"}

Min(a, b) == IF a <= b THEN a ELSE b

RECURSIVE Pow(_, _)
Pow(b, e) == IF e = 0 THEN 1 ELSE b * Pow(b, e - 1)

\* isinstance(error of class cls, expected): every class derives from Exception.
IsInstance(cls, expected) == expected = "Exception" \/ cls = expected

(***************************************************************************)
(* RetryConfig and CircuitBreakerConfig.                                   *)
(***************************************************************************)
RetryConfig(ma, bd, md, eb, j) ==
    [max_attempts |-> ma, base_delay |-> bd, max_delay |-> md,
     exponential_base |-> eb, jitter |-> j]

DefaultRetryConfig ==
    RetryConfig(DefaultMaxAttempts, DefaultBaseDelay, DefaultMaxDelay,
                DefaultExponentialBase, TRUE)

CircuitBreakerConfig(ft, rt, ee) ==
    [failure_threshold |-> ft, recovery_timeout |-> rt, expected_exception |-> ee]

DefaultCircuitBreakerConfig ==
    CircuitBreakerConfig(DefaultFailureThreshold, DefaultRecoveryTimeout, "Exception")

(***************************************************************************)
(* CircuitBreaker: the object, _can_execute as a function of the breaker   *)
(* record and of time.time(), and the assignments of _on_success,          *)
(* _on_failure and the reset, one function of the record each.             *)
(***************************************************************************)
NewCircuitBreaker(config) ==
    [config |-> config, state |-> "closed", failure_count |-> 0,
     last_failure_time |-> 0]

\* No breaker: the value of a breaker-valued slot that is empty.
NoBreaker ==
    [config |-> DefaultCircuitBreakerConfig, state |-> "none", failure_count |-> 0,
     last_failure_time |-> 0]

\* _can_execute with the recovery check left out: an Open breaker always
\* goes to HalfOpen.
CanExecuteNoCooling(b, t) ==
    IF b.state = "open" THEN [ok |-> TRUE, cb |-> [b EXCEPT !.state = "half_open"]]
    ELSE [ok |-> TRUE, cb |-> b]

\* _can_execute with > for >= in the recovery check.
CanExecuteStrict(b, t) ==
    IF b.state = "open" THEN
        IF t - b.last_failure_time > Seconds(b.config.recovery_timeout)
        THEN [ok |-> TRUE, cb |-> [b EXCEPT !.state = "half_open"]]
        ELSE [ok |-> FALSE, cb |-> b]
    ELSE [ok |-> TRUE, cb |-> b]

\* _can_execute without the recovery branch: Open rejects for good.
CanExecuteStaysOpen(b, t) ==
    IF b.state = "open" THEN [ok |-> FALSE, cb |-> b] ELSE [ok |-> TRUE, cb |-> b]

\* _can_execute counting a rejection as a failure time.
CanExecuteRefreshing(b, t) ==
    IF b.state = "open" THEN
        IF t - b.last_failure_time >= Seconds(b.config.recovery_timeout)
        THEN [ok |-> TRUE, cb |-> [b EXCEPT !.state = "half_open"]]
        ELSE [ok |-> FALSE, cb |-> [b EXCEPT !.last_failure_time = t]]
    ELSE [ok |-> TRUE, cb |-> b]

\* _can_execute clearing failure_count when it moves to HalfOpen.
CanExecuteClearsCount(b, t) ==
    IF b.state = "open" THEN
        IF t - b.last_failure_time >= Seconds(b.config.recovery_timeout)
        THEN [ok |-> TRUE, cb |-> [b EXCEPT !.state = "half_open", !.failure_count = 0]]
        ELSE [ok |-> FALSE, cb |-> b]
    ELSE [ok |-> TRUE, cb |-> b]

\* _can_execute: the verdict and the breaker after the locked section.
CanExecute(b, t) ==
    IF b.state = "closed" THEN [ok |-> TRUE, cb |-> b]
    ELSE IF b.state = "open" THEN
        IF t - b.last_failure_time >= Seconds(b.config.recovery_timeout)
        THEN [ok |-> TRUE, cb |-> [b EXCEPT !.state = "half_open"]]
        ELSE [ok |-> FALSE, cb |-> b]
    ELSE IF b.state = "half_open" THEN [ok |-> TRUE, cb |-> b]
    ELSE [ok |-> FALSE, cb |-> b]

\* line 64 left out: _on_success keeps failure_count.
OnSuccessCountKept(b) == b

\* line 64: self.failure_count = 0
OnSuccessCount(b) == [b EXCEPT !.failure_count = 0]

\* line 65 left out: _on_success keeps the state.
OnSuccessStateKept(b) == b

\* line 65: self.state = CircuitState.CLOSED
OnSuccessState(b) == [b EXCEPT !.state = "closed"]

\* _on_success: the breaker after lines 64 and 65.
OnSuccess(b) == OnSuccessState(OnSuccessCount(b))

\* line 69: self.failure_count += 1
OnFailureCount(b) == [b EXCEPT !.failure_count = @ + 1]

\* line 70: self.last_failure_time = time.time()
OnFailureTime(b, t) == [b EXCEPT !.last_failure_time = t]

\* lines 72-73 with > for >= in the threshold test.
OnFailureTripAbove(b) ==
    IF b.failure_count > b.config.failure_threshold
    THEN [b EXCEPT !.state = "open"] ELSE b

\* lines 72-73 with == for >= in the threshold test.
OnFailureTripEqual(b) ==
    IF b.failure_count = b.config.failure_threshold
    THEN [b EXCEPT !.state = "open"] ELSE b

\* lines 72-73: if self.failure_count >= self.config.failure_threshold:
\* self.state = CircuitState.OPEN
OnFailureTrip(b) ==
    IF b.failure_count >= b.config.failure_threshold
    THEN [b EXCEPT !.state = "open"] ELSE b

\* _on_failure: the breaker after lines 69, 70 and 72-73, time.time() being t
\* at line 70.
OnFailure(b, t) == OnFailureTrip(OnFailureTime(OnFailureCount(b), t))

\* line 166 left out: the reset keeps the state.
ResetStateKept(b) == b

\* line 166: cb.state = CircuitState.CLOSED
ResetState(b) == [b EXCEPT !.state = "closed"]

\* line 167 clearing last_failure_time too.
ResetCountClearsTime(b) == [b EXCEPT !.failure_count = 0, !.last_failure_time = 0]

\* line 167: cb.failure_count = 0
ResetCount(b) == [b EXCEPT !.failure_count = 0]

\* reset_circuit_breaker: the breaker after lines 166 and 167.
ResetBreaker(b) == ResetCount(ResetState(b))

\* line 39 raising an exception class of its own.
CircuitOpenErrorOwnClass(state, attempt) ==
    [cls |-> "CircuitOpenError", msg |-> "Circuit breaker is " \o state,
     attempt |-> attempt]

\* The exception CircuitBreaker.call raises on a rejection: a plain Exception
\* whose message holds the state read when the message is formatted.
CircuitOpenError(state, attempt) ==
    [cls |-> "Exception", msg |-> "Circuit breaker is " \o state, attempt |-> attempt]

\* The exception the wrapped operation raises at an attempt.
OperationError(cls, attempt) ==
    [cls |-> cls, msg |-> "operation failed", attempt |-> attempt]

NoError == [cls |-> "None", msg |-> "", attempt |-> 0]

(***************************************************************************)
(* RetryHandler._calculate_delay, in units of 1/DelayScale seconds.        *)
(***************************************************************************)
JitterDraws == 0 .. (JitterDen - 1)

\* _calculate_delay with the exponent one too high.
CalculateDelayNextExponent(config, attempt, k) ==
    LET delay == Min(config.base_delay * Pow(config.exponential_base, attempt + 1),
                     config.max_delay)
    IN  IF config.jitter THEN delay * (JitterDen + k) ELSE delay * DelayScale

CalculateDelay(config, attempt, k) ==
    LET delay == Min(config.base_delay * Pow(config.exponential_base, attempt),
                     config.max_delay)
    IN  IF config.jitter THEN delay * (JitterDen + k) ELSE delay * DelayScale

\* time.sleep(delay), called at time t, returns at t + delay.
WakeTime(t, delay) == t + delay

VARIABLES
    heap,              \* the CircuitBreaker objects ever constructed, by identity
    circuit_breakers,  \* ResilienceManager.circuit_breakers: name -> identity
    retry_handlers,    \* ResilienceManager.retry_handlers: name -> RetryConfig
    now,               \* time.time()
    th                 \* per thread: program counter and local variables

vars == <<heap, circuit_breakers, retry_handlers, now, th>>

\* The end-to-end run: five failing calls, a rejected one, a successful one.
Scenario == <<"failed", "failed", "failed", "failed", "failed", "rejected", "ok">>

\* The outcomes so far with one more: kept while they are a prefix of
\* Scenario, <<"other">> from the first call that departs from it.
Track(h, outcome) ==
    LET g == Append(h, outcome)
    IN  IF Len(g) <= Len(Scenario) /\ g = SubSeq(Scenario, 1, Len(g))
        THEN g ELSE <<"other">>

NoResult == [status |-> "none", error |-> NoError]

\* The frame of graceful_degradation when no such call is in progress.
\* exporters: the items of the exporters dict in iteration order; idx: the
\* position of the loop; phase: which execute_with_resilience is running; e:
\* the primary's exception while its fallback runs.
NoDegradation ==
    [active |-> FALSE, exporters |-> << >>, fallback_exporters |-> {},
     idx |-> 0, phase |-> "none", e |-> NoError, results |-> << >>]

\* The locals of check_service_health before anything is read.
NoHealth == [status |-> "", service |-> "", failure_count |-> 0, last_failure |-> 0]

\* The frame of get_all_health_status when no such call is in progress.
\* size: len(circuit_breakers) when the iteration over its keys began; pos:
\* the position of the iteration; results: the dict under construction.
NoAllHealth == [active |-> FALSE, size |-> 0, pos |-> 0, results |-> << >>]

\* A thread that has called nothing yet.  via: the public entry point the
\* thread is in; calls, invoked, slept: how often the current call has entered
\* func (the retry loop's try), started the wrapped operation, and slept;
\* hist: the outcomes of the direct breaker.call()s the thread has made, kept
\* while they follow Scenario; was: the breaker's state when the thread last
\* recorded an outcome on it or reset it, until its next attempt; gd: the frame
\* of the graceful_degradation call the thread is in; health: the dict
\* check_service_health builds and returns; all: the frame of the
\* get_all_health_status call the thread is in.
\* before (history): the breaker as the thread found it when it entered the
\* `with` block it is in, NoBreaker outside these blocks.
IdleThread ==
    [pc |-> "idle", via |-> "none", service_name |-> "", cb |-> 0,
     config |-> DefaultCircuitBreakerConfig, rh |-> DefaultRetryConfig,
     attempt |-> 0, exc |-> NoError, last_exception |-> NoError,
     delay |-> 0, wake |-> 0, calls |-> 0, invoked |-> 0, slept |-> 0,
     result |-> NoResult, hist |-> << >>, was |-> "none", gd |-> NoDegradation,
     health |-> NoHealth, all |-> NoAllHealth, holds |-> 0,
     before |-> NoBreaker]

\* Configurations a caller passes to get_circuit_breaker and get_retry_handler.
CallerBreakerConfigs ==
    {CircuitBreakerConfig(1, 1, "Exception"),
     CircuitBreakerConfig(2, 2, "ConnectionError")}

CallerRetryConfigs == {RetryConfig(2, 1, 2, 2, FALSE)}

\* The manager after its owner has registered service "svc" with
\* get_circuit_breaker("svc", c) and get_retry_handler("svc", r).
Init ==
    /\ \E c \in CallerBreakerConfigs : heap = <<NewCircuitBreaker(c)>>
    /\ circuit_breakers = [n \in {"svc"} |-> 1]
    /\ \E r \in CallerRetryConfigs : retry_handlers = [n \in {"svc"} |-> r]
    /\ now = Seconds(StartTime)
    /\ th = [t \in Threads |-> IdleThread]

\* dict[name] = value
Put(d, name, value) ==
    [n \in (DOMAIN d) \cup {name} |-> IF n = name THEN value ELSE d[n]]

\* The thread's record when it enters a public method: locals are fresh, the
\* breaker reference a caller holds from get_circuit_breaker is kept.
Enter(t, via, name) ==
    [IdleThread EXCEPT !.via = via, !.service_name = name, !.cb = th[t].cb,
                       !.hist = th[t].hist]

\* The thread's record when its public method returns or raises: the outcome
\* is in the caller's hands at pc "done".
Leave(r, status, error) ==
    [r EXCEPT !.pc = "done", !.exc = NoError, !.delay = 0, !.wake = 0,
              !.result = [status |-> status, error |-> error]]

\* The caller is through with the outcome; of the method's locals only the
\* breaker that get_circuit_breaker handed out stays with the caller.  A
\* method called from graceful_degradation or from get_all_health_status
\* hands its outcome to that method (GdStore, AllStore), not to the caller.
Return(t) ==
    /\ th[t].pc = "done"
    /\ th[t].gd.active => th[t].via = "degrade"
    /\ th[t].all.active => th[t].via = "all_health"
    /\ th' = [th EXCEPT ![t] =
                 [IdleThread EXCEPT
                     !.cb = IF th[t].via \in {"get_circuit_breaker", "call"}
                            THEN th[t].cb ELSE 0,
                     !.hist = th[t].hist]]
    /\ UNCHANGED <<heap, circuit_breakers, retry_handlers, now>>

(***************************************************************************)
(* ResilienceManager.get_circuit_breaker, lines 119, 120-121 and 122.      *)
(***************************************************************************)
\* execute_with_resilience(service_name, func): its first statement calls
\* get_circuit_breaker(service_name) with no config.
Execute(t, name) ==
    /\ th[t].pc = "idle"
    /\ th' = [th EXCEPT ![t] = [Enter(t, "execute", name) EXCEPT
                                   !.pc = "gcb_check"]]
    /\ UNCHANGED <<heap, circuit_breakers, retry_handlers, now>>

\* A caller's own get_circuit_breaker(name, config).
GetCircuitBreaker(t, name, config) ==
    /\ th[t].pc = "idle"
    /\ th' = [th EXCEPT ![t] = [Enter(t, "get_circuit_breaker", name) EXCEPT
                                   !.pc = "gcb_check", !.config = config]]
    /\ UNCHANGED <<heap, circuit_breakers, retry_handlers, now>>

\* line 119 letting a supplied config make a new breaker for a known name.
GcbCheckConfigured(t) ==
    /\ th[t].pc = "gcb_check"
    /\ th' = [th EXCEPT ![t].pc =
                 IF /\ th[t].service_name \in DOMAIN circuit_breakers
                    /\ th[t].config = DefaultCircuitBreakerConfig
                 THEN "gcb_return" ELSE "gcb_create"]
    /\ UNCHANGED <<heap, circuit_breakers, retry_handlers, now>>

\* line 119: if name not in self.circuit_breakers
GcbCheck(t) ==
    /\ th[t].pc = "gcb_check"
    /\ th' = [th EXCEPT ![t].pc =
                 IF th[t].service_name \in DOMAIN circuit_breakers
                 THEN "gcb_return" ELSE "gcb_create"]
    /\ UNCHANGED <<heap, circuit_breakers, retry_handlers, now>>

\* lines 120-121: self.circuit_breakers[name] = CircuitBreaker(config)
GcbCreate(t) ==
    /\ th[t].pc = "gcb_create"
    /\ heap' = Append(heap, NewCircuitBreaker(th[t].config))
    /\ circuit_breakers' = Put(circuit_breakers, th[t].service_name, Len(heap) + 1)
    /\ th' = [th EXCEPT ![t].pc = "gcb_return"]
    /\ UNCHANGED <<retry_handlers, now>>

\* line 122: return self.circuit_breakers[name]
GcbReturn(t) ==
    /\ th[t].pc = "gcb_return"
    /\ LET r == [th[t] EXCEPT !.cb = circuit_breakers[th[t].service_name]]
       IN  th' = [th EXCEPT ![t] =
                    IF r.via = "execute" THEN [r EXCEPT !.pc = "grh_check"]
                    ELSE Leave(r, "ok", NoError)]
    /\ UNCHANGED <<heap, circuit_breakers, retry_handlers, now>>

(***************************************************************************)
(* ResilienceManager.get_retry_handler, lines 126, 127-128 and 129.        *)
(***************************************************************************)
\* A caller's own get_retry_handler(name, config).
GetRetryHandler(t, name, config) ==
    /\ th[t].pc = "idle"
    /\ th' = [th EXCEPT ![t] = [Enter(t, "get_retry_handler", name) EXCEPT
                                   !.pc = "grh_check", !.rh = config]]
    /\ UNCHANGED <<heap, circuit_breakers, retry_handlers, now>>

\* line 126: if name not in self.retry_handlers
GrhCheck(t) ==
    /\ th[t].pc = "grh_check"
    /\ th' = [th EXCEPT ![t].pc =
                 IF th[t].service_name \in DOMAIN retry_handlers
                 THEN "grh_return" ELSE "grh_create"]
    /\ UNCHANGED <<heap, circuit_breakers, retry_handlers, now>>

\* lines 127-128: self.retry_handlers[name] = RetryHandler(config or
\* RetryConfig()); th[t].rh is the config argument, the default when
\* execute_with_resilience makes the call.
GrhCreate(t) ==
    /\ th[t].pc = "grh_create"
    /\ retry_handlers' = Put(retry_handlers, th[t].service_name, th[t].rh)
    /\ th' = [th EXCEPT ![t].pc = "grh_return"]
    /\ UNCHANGED <<heap, circuit_breakers, now>>

\* line 129, then execute_with_retry starts: last_exception = None, attempt 0.
GrhReturn(t) ==
    /\ th[t].pc = "grh_return"
    /\ LET r == [th[t] EXCEPT !.rh = retry_handlers[th[t].service_name]]
       IN  th' = [th EXCEPT ![t] =
                    IF r.via = "execute" THEN [r EXCEPT !.pc = "attempt"]
                    ELSE Leave(r, "ok", NoError)]
    /\ UNCHANGED <<heap, circuit_breakers, retry_handlers, now>>

(***************************************************************************)
(* CircuitBreaker.call(func), entered from the retry loop                  *)
(* (execute_with_resilience's protected_func) or directly by a caller that *)
(* holds the breaker from get_circuit_breaker.                             *)
(***************************************************************************)
\* A caller's own breaker.call(func) on the breaker it holds.
Call(t) ==
    /\ th[t].pc = "idle"
    /\ th[t].cb # 0
    /\ th' = [th EXCEPT ![t] = [Enter(t, "call", "") EXCEPT !.pc = "attempt"]]
    /\ UNCHANGED <<heap, circuit_breakers, retry_handlers, now>>

\* A caller's own RetryHandler(config).execute_with_retry(func): line 81,
\* then the loop's first attempt.
ExecuteWithRetry(t, config) ==
    /\ th[t].pc = "idle"
    /\ now <= Seconds(MaxTime)
    /\ th' = [th EXCEPT ![t] = [Enter(t, "retry", "") EXCEPT
                                   !.pc = "attempt", !.rh = config]]
    /\ UNCHANGED <<heap, circuit_breakers, retry_handlers, now>>

\* Raise with a rejection leaving the retry loop at once (fail fast).
RaiseFailFast(r, e) ==
    IF r.via \in {"execute", "retry"} /\ r.pc # "rejected"
    THEN [r EXCEPT !.pc = "caught", !.exc = e]
    ELSE [Leave(r, "raised", e) EXCEPT
             !.hist = Track(@, IF r.pc = "rejected" THEN "rejected" ELSE "failed")]

\* An exception leaves func: into the retry loop's except clause, or out to
\* the caller of a direct breaker.call().
Raise(r, e) ==
    IF r.via \in {"execute", "retry"} THEN [r EXCEPT !.pc = "caught", !.exc = e]
    ELSE [Leave(r, "raised", e) EXCEPT
             !.hist = Track(@, IF r.pc = "rejected" THEN "rejected" ELSE "failed")]

\* line 85 when func is the operation itself: the retry loop calls it.
Invoke(t) ==
    /\ th[t].pc = "attempt"
    /\ th[t].via = "retry"
    /\ th' = [th EXCEPT ![t].calls = @ + 1, ![t].invoked = @ + 1,
                        ![t].pc = "running"]
    /\ UNCHANGED <<heap, circuit_breakers, retry_handlers, now>>

\* The thread is inside a `with self.lock:` block that takes more than one
\* step: past the first assignment of _on_success, _on_failure or the reset.
InSection(r) ==
    r.pc \in {"on_success_state", "on_failure_time", "on_failure_trip", "reset_count"}

\* lines 50, 63, 68, 165: `with self.lock:` enters when no other thread is
\* inside a `with` block of the same breaker, and waits otherwise.
LockFree(t) ==
    \A u \in Threads \ {t} : ~(InSection(th[u]) /\ th[u].cb = th[t].cb)

\* line 85 (the retry loop calls func) and line 38: the locked _can_execute,
\* which makes at most one assignment.  An admitted call goes on to line 42
\* and starts the wrapped operation.
Attempt(t) ==
    /\ th[t].pc = "attempt"
    /\ th[t].via \in {"execute", "call"}
    /\ LockFree(t)
    /\ LET v == CanExecute(heap[th[t].cb], now)
       IN  /\ heap' = [heap EXCEPT ![th[t].cb] = v.cb]
           /\ th' = [th EXCEPT ![t].calls = @ + 1,
                               ![t].invoked = IF v.ok THEN @ + 1 ELSE @,
                               ![t].pc = IF v.ok THEN "running" ELSE "rejected"]
    /\ UNCHANGED <<circuit_breakers, retry_handlers, now>>

\* line 39: raise Exception(f"Circuit breaker is {self.state.value}"); the
\* state is read again, outside the lock.
Reject(t) ==
    /\ th[t].pc = "rejected"
    /\ th' = [th EXCEPT ![t] =
                 Raise(th[t], CircuitOpenError(heap[th[t].cb].state, th[t].attempt))]
    /\ UNCHANGED <<heap, circuit_breakers, retry_handlers, now>>

\* line 42: the wrapped operation returns (line 85 when the retry loop runs
\* the operation itself: its result is returned).
OperationReturns(t) ==
    /\ th[t].pc = "running"
    /\ th' = [th EXCEPT ![t] =
                 IF th[t].via = "retry" THEN Leave(th[t], "ok", NoError)
                 ELSE [th[t] EXCEPT !.pc = "on_success"]]
    /\ UNCHANGED <<heap, circuit_breakers, retry_handlers, now>>

\* call() with `except Exception`: every error of the operation is recorded.
OperationRaisesRecordsAll(t, cls) ==
    /\ th[t].pc = "running"
    /\ LET e == OperationError(cls, th[t].attempt)
       IN  th' = [th EXCEPT ![t] =
                    IF th[t].via # "retry"
                    THEN [th[t] EXCEPT !.pc = "on_failure", !.exc = e]
                    ELSE Raise(th[t], e)]
    /\ UNCHANGED <<heap, circuit_breakers, retry_handlers, now>>

\* line 42 and 45: the wrapped operation raises; the except clause takes only
\* instances of config.expected_exception, anything else leaves call() at once.
OperationRaises(t, cls) ==
    /\ th[t].pc = "running"
    /\ LET e == OperationError(cls, th[t].attempt)
       IN  th' = [th EXCEPT ![t] =
                    IF /\ th[t].via # "retry"
                       /\ IsInstance(cls, heap[th[t].cb].config.expected_exception)
                    THEN [th[t] EXCEPT !.pc = "on_failure", !.exc = e]
                    ELSE Raise(th[t], e)]
    /\ UNCHANGED <<heap, circuit_breakers, retry_handlers, now>>

\* line 43: _on_success takes the lock (line 63) and clears the count
\* (line 64).
RecordSuccess(t) ==
    /\ th[t].pc = "on_success"
    /\ LockFree(t)
    /\ heap' = [heap EXCEPT ![th[t].cb] = OnSuccessCount(@)]
    /\ th' = [th EXCEPT ![t].pc = "on_success_state",
                        ![t].before = heap[th[t].cb]]
    /\ UNCHANGED <<circuit_breakers, retry_handlers, now>>

\* line 65, the last statement under the lock; then line 44: return result.
RecordSuccessState(t) ==
    /\ th[t].pc = "on_success_state"
    /\ heap' = [heap EXCEPT ![th[t].cb] = OnSuccessState(@)]
    /\ th' = [th EXCEPT ![t] =
                 [Leave(th[t], "ok", NoError) EXCEPT
                     !.was = th[t].before.state,
                     !.before = NoBreaker,
                     !.hist = IF th[t].via = "call" THEN Track(@, "ok") ELSE @]]
    /\ UNCHANGED <<circuit_breakers, retry_handlers, now>>

\* line 46: _on_failure takes the lock (line 68) and counts the failure
\* (line 69).
RecordFailure(t) ==
    /\ th[t].pc = "on_failure"
    /\ LockFree(t)
    /\ heap' = [heap EXCEPT ![th[t].cb] = OnFailureCount(@)]
    /\ th' = [th EXCEPT ![t].pc = "on_failure_time",
                        ![t].before = heap[th[t].cb]]
    /\ UNCHANGED <<circuit_breakers, retry_handlers, now>>

\* line 70: the time of the failure is taken and stored.
RecordFailureTime(t) ==
    /\ th[t].pc = "on_failure_time"
    /\ heap' = [heap EXCEPT ![th[t].cb] = OnFailureTime(@, now)]
    /\ th' = [th EXCEPT ![t].pc = "on_failure_trip"]
    /\ UNCHANGED <<circuit_breakers, retry_handlers, now>>

\* lines 72-73, the last statement under the lock; then line 47: raise e.
RecordFailureTrip(t) ==
    /\ th[t].pc = "on_failure_trip"
    /\ heap' = [heap EXCEPT ![th[t].cb] = OnFailureTrip(@)]
    /\ th' = [th EXCEPT ![t] =
                 [Raise(th[t], th[t].exc) EXCEPT
                     !.was = th[t].before.state, !.before = NoBreaker]]
    /\ UNCHANGED <<circuit_breakers, retry_handlers, now>>

(***************************************************************************)
(* RetryHandler.execute_with_retry: the except clause, lines 86-94.        *)
(***************************************************************************)
\* line 89 with attempt taken as the 1-based number of the attempt.
IsLastAttemptOneBased(attempt, config) == attempt + 1 = config.max_attempts - 1

\* line 89 with the test never true: the loop sleeps after every failure.
IsLastAttemptNever(attempt, config) == FALSE

\* line 89: if attempt == self.config.max_attempts - 1
IsLastAttempt(attempt, config) == attempt = config.max_attempts - 1

\* line 83: attempt is in range(self.config.max_attempts)
InRange(attempt, config) == attempt < config.max_attempts

\* Lines 90 and 96 raising a new exception in place of the one caught.
ExhaustedGeneric(last_exception, attempts) ==
    [cls |-> "Exception", msg |-> "retries exhausted", attempt |-> attempts - 1]

\* What execute_with_retry raises once the attempts are used up (lines 90
\* and 96): the last exception, as it was caught.
Exhausted(last_exception, attempts) == last_exception

\* The except clause computing the delay of the attempt to come.
CaughtNextIndex(t) ==
    /\ th[t].pc = "caught"
    /\ IF IsLastAttempt(th[t].attempt, th[t].rh)
       THEN th' = [th EXCEPT ![t] =
                      Leave([th[t] EXCEPT !.last_exception = th[t].exc], "raised",
                            Exhausted(th[t].exc, th[t].attempt + 1))]
       ELSE \E k \in JitterDraws :
              LET d == CalculateDelay(th[t].rh, th[t].attempt + 1, k)
              IN  th' = [th EXCEPT ![t].last_exception = th[t].exc,
                                   ![t].exc = NoError,
                                   ![t].delay = d,
                                   ![t].wake = WakeTime(now, d),
                                   ![t].pc = "sleeping"]
    /\ UNCHANGED <<heap, circuit_breakers, retry_handlers, now>>

\* lines 86-93: last_exception = e, then the raise or the delay.
Caught(t) ==
    /\ th[t].pc = "caught"
    /\ IF IsLastAttempt(th[t].attempt, th[t].rh)
       THEN th' = [th EXCEPT ![t] =
                      Leave([th[t] EXCEPT !.last_exception = th[t].exc], "raised",
                            Exhausted(th[t].exc, th[t].attempt + 1))]
       ELSE \E k \in JitterDraws :
              LET d == CalculateDelay(th[t].rh, th[t].attempt, k)
              IN  th' = [th EXCEPT ![t].last_exception = th[t].exc,
                                   ![t].exc = NoError,
                                   ![t].delay = d,
                                   ![t].wake = WakeTime(now, d),
                                   ![t].pc = "sleeping"]
    /\ UNCHANGED <<heap, circuit_breakers, retry_handlers, now>>

\* line 94: time.sleep(delay) returns; the loop takes its next attempt, or
\* ends and line 96 raises.
Wake(t) ==
    /\ th[t].pc = "sleeping"
    /\ now >= th[t].wake
    /\ LET r == [th[t] EXCEPT !.attempt = @ + 1, !.slept = @ + 1, !.delay = 0,
                              !.wake = 0, !.was = "none"]
       IN  th' = [th EXCEPT ![t] =
                    IF InRange(r.attempt, r.rh) THEN [r EXCEPT !.pc = "attempt"]
                    ELSE Leave(r, "raised", Exhausted(r.last_exception, r.attempt))]
    /\ UNCHANGED <<heap, circuit_breakers, retry_handlers, now>>

(***************************************************************************)
(* ResilienceManager.reset_circuit_breaker.                                *)
(***************************************************************************)
\* reset_circuit_breaker with a miss raising instead of printing.
ResetRaising(t, name) ==
    /\ th[t].pc = "idle"
    /\ LET r == Enter(t, "reset", name)
       IN  th' = [th EXCEPT ![t] =
                    IF name \in DOMAIN circuit_breakers
                    THEN [r EXCEPT !.pc = "reset_locked", !.cb = circuit_breakers[name]]
                    ELSE Leave(r, "raised",
                               [cls |-> "KeyError", msg |-> name, attempt |-> 0])]
    /\ UNCHANGED <<heap, circuit_breakers, retry_handlers, now>>

\* lines 163-164 and 170: the lookup.
Reset(t, name) ==
    /\ th[t].pc = "idle"
    /\ LET r == Enter(t, "reset", name)
       IN  th' = [th EXCEPT ![t] =
                    IF name \in DOMAIN circuit_breakers
                    THEN [r EXCEPT !.pc = "reset_locked", !.cb = circuit_breakers[name]]
                    ELSE Leave(r, "not_found", NoError)]
    /\ UNCHANGED <<heap, circuit_breakers, retry_handlers, now>>

\* The reset putting a new breaker in the name's place.
ResetLockedRebinding(t) ==
    /\ th[t].pc = "reset_locked"
    /\ heap' = Append(heap, NewCircuitBreaker(heap[th[t].cb].config))
    /\ circuit_breakers' = Put(circuit_breakers, th[t].service_name, Len(heap) + 1)
    /\ th' = [th EXCEPT ![t] =
                 [Leave(th[t], "ok", NoError) EXCEPT !.was = heap[th[t].cb].state]]
    /\ UNCHANGED <<retry_handlers, now>>

\* lines 165-166: the reset takes the breaker's lock and closes the breaker.
ResetLocked(t) ==
    /\ th[t].pc = "reset_locked"
    /\ LockFree(t)
    /\ heap' = [heap EXCEPT ![th[t].cb] = ResetState(@)]
    /\ th' = [th EXCEPT ![t].pc = "reset_count",
                        ![t].before = heap[th[t].cb]]
    /\ UNCHANGED <<circuit_breakers, retry_handlers, now>>

\* line 167, the last statement under the lock; then line 168.
ResetLockedCount(t) ==
    /\ th[t].pc = "reset_count"
    /\ heap' = [heap EXCEPT ![th[t].cb] = ResetCount(@)]
    /\ th' = [th EXCEPT ![t] =
                 [Leave(th[t], "ok", NoError) EXCEPT
                     !.was = th[t].before.state, !.before = NoBreaker]]
    /\ UNCHANGED <<circuit_breakers, retry_handlers, now>>

(***************************************************************************)
(* ResilienceManager.check_service_health.  The three fields of the        *)
(* breaker are read one after the other, without the breaker's lock.       *)
(***************************************************************************)
\* check_service_health with a miss registering a breaker for the name.
CheckServiceHealthCreating(t, name) ==
    /\ th[t].pc = "idle"
    /\ LET r == Enter(t, "health", name)
       IN  IF name \in DOMAIN circuit_breakers
           THEN /\ th' = [th EXCEPT ![t] =
                             [r EXCEPT !.pc = "health_state",
                                       !.cb = circuit_breakers[name],
                                       !.health.service = name]]
                /\ UNCHANGED <<heap, circuit_breakers>>
           ELSE /\ heap' = Append(heap, NewCircuitBreaker(DefaultCircuitBreakerConfig))
                /\ circuit_breakers' = Put(circuit_breakers, name, Len(heap) + 1)
                /\ th' = [th EXCEPT ![t] =
                             Leave([r EXCEPT !.health =
                                       [status |-> "unknown", service |-> name]],
                                   "ok", NoError)]
    /\ UNCHANGED <<retry_handlers, now>>

\* lines 143-145: self.circuit_breakers.get(service_name); a miss returns the
\* "unknown" dict.
CheckServiceHealth(t, name) ==
    /\ th[t].pc = "idle"
    /\ LET r == Enter(t, "health", name)
       IN  th' = [th EXCEPT ![t] =
                    IF name \in DOMAIN circuit_breakers
                    THEN [r EXCEPT !.pc = "health_state",
                                   !.cb = circuit_breakers[name],
                                   !.health.service = name]
                    ELSE Leave([r EXCEPT !.health =
                                   [status |-> "unknown", service |-> name]],
                               "ok", NoError)]
    /\ UNCHANGED <<heap, circuit_breakers, retry_handlers, now>>

\* line 148: circuit_breaker.state.value
HealthState(t) ==
    /\ th[t].pc = "health_state"
    /\ th' = [th EXCEPT ![t].health.status = heap[th[t].cb].state,
                        ![t].pc = "health_count"]
    /\ UNCHANGED <<heap, circuit_breakers, retry_handlers, now>>

\* line 150: circuit_breaker.failure_count
HealthCount(t) ==
    /\ th[t].pc = "health_count"
    /\ th' = [th EXCEPT ![t].health.failure_count = heap[th[t].cb].failure_count,
                        ![t].pc = "health_last"]
    /\ UNCHANGED <<heap, circuit_breakers, retry_handlers, now>>

\* line 151: circuit_breaker.last_failure_time, and the dict is returned.
HealthLast(t) ==
    /\ th[t].pc = "health_last"
    /\ th' = [th EXCEPT ![t] =
                 Leave([th[t] EXCEPT !.health.last_failure =
                                        heap[th[t].cb].last_failure_time],
                       "ok", NoError)]
    /\ UNCHANGED <<heap, circuit_breakers, retry_handlers, now>>

(***************************************************************************)
(* ResilienceManager.get_all_health_status: a dict comprehension over      *)
(* self.circuit_breakers.keys() that calls check_service_health per key.   *)
(***************************************************************************)
RECURSIVE KeysFrom(_, _)
\* The keys of d bound to identities >= i, by growing identity.
KeysFrom(d, i) ==
    IF \A n \in DOMAIN d : d[n] < i THEN << >>
    ELSE LET here == {n \in DOMAIN d : d[n] = i}
         IN  IF here = {} THEN KeysFrom(d, i + 1)
             ELSE <<CHOOSE n \in here : TRUE>> \o KeysFrom(d, i + 1)

\* The keys of circuit_breakers without the derived "..._fallback" names.
KeysInOrderGiven(d) ==
    SelectSeq(KeysFrom(d, 1), LAMBDA n : n \in {"svc"})

\* d.keys() in iteration order, which is insertion order: breakers get
\* growing identities as their names are inserted.
KeysInOrder(d) == KeysFrom(d, 1)

\* line 156-158: the comprehension starts iterating over the keys.
GetAllHealthStatus(t) ==
    /\ th[t].pc = "idle"
    /\ th' = [th EXCEPT ![t] =
                 [Enter(t, "all_health", "") EXCEPT
                     !.pc = "all_next",
                     !.all = [NoAllHealth EXCEPT
                                 !.active = TRUE, !.pos = 1,
                                 !.size = Cardinality(DOMAIN circuit_breakers)]]]
    /\ UNCHANGED <<heap, circuit_breakers, retry_handlers, now>>

\* lines 157-158: the iterator's next key, and check_service_health(key) up
\* to its lookup (lines 143-145); a dict whose size changed since the
\* iteration began makes the iterator raise RuntimeError; line 156 once the
\* keys are used up: the dict is returned.
AllNext(t) ==
    /\ th[t].pc = "all_next"
    /\ LET a == th[t].all
           keys == KeysInOrder(circuit_breakers)
           call(name) ==
               [IdleThread EXCEPT !.via = "health", !.service_name = name,
                                  !.hist = th[t].hist, !.all = a]
       IN  th' = [th EXCEPT ![t] =
                    IF Cardinality(DOMAIN circuit_breakers) # a.size
                    THEN Leave(th[t], "raised",
                               [cls |-> "RuntimeError",
                                msg |-> "dictionary changed size during iteration",
                                attempt |-> 0])
                    ELSE IF a.pos > Len(keys) THEN Leave(th[t], "ok", NoError)
                    ELSE LET name == keys[a.pos]
                         IN  IF name \in DOMAIN circuit_breakers
                             THEN [call(name) EXCEPT
                                      !.pc = "health_state",
                                      !.cb = circuit_breakers[name],
                                      !.health.service = name]
                             ELSE Leave([call(name) EXCEPT !.health =
                                            [status |-> "unknown", service |-> name]],
                                        "ok", NoError)]
    /\ UNCHANGED <<heap, circuit_breakers, retry_handlers, now>>

\* line 157: service_name: <the dict check_service_health returned>.
AllStore(t) ==
    /\ th[t].pc = "done"
    /\ th[t].via = "health"
    /\ th[t].all.active
    /\ th' = [th EXCEPT ![t] =
                 [IdleThread EXCEPT
                     !.via = "all_health", !.pc = "all_next", !.hist = th[t].hist,
                     !.all = [th[t].all EXCEPT
                                 !.results = Put(@, th[t].service_name, th[t].health),
                                 !.pos = @ + 1]]]
    /\ UNCHANGED <<heap, circuit_breakers, retry_handlers, now>>

\* The caller of get_all_health_status is through with the dict.
AllReturn(t) ==
    /\ th[t].via = "all_health"
    /\ Return(t)

(***************************************************************************)
(* ResilienceManager.graceful_degradation.                                 *)
(***************************************************************************)
\* f"{exporter_name}_fallback"
FallbackName(exporter_name) == exporter_name \o "_fallback"

\* What the exporter's (kind "primary") or the fallback exporter's (kind
\* "fallback") function registered under name returns.
ResultOf(kind, name) == <<kind, name>>

\* str(e) of an exception raised with one message argument.
Str(e) == e.msg

\* line 183 with the test always true.
HasFallbackAlways(exporter_name, fallback_exporters) == TRUE

\* line 183: if exporter_name in fallback_exporters
HasFallback(exporter_name, fallback_exporters) == exporter_name \in fallback_exporters

\* lines 174-175: results = {}, fallback_exporters or {}.
GracefulDegradation(t, exporters, fallback_exporters) ==
    /\ th[t].pc = "idle"
    /\ now <= Seconds(MaxTime)
    /\ th' = [th EXCEPT ![t] =
                 [Enter(t, "degrade", "") EXCEPT
                     !.pc = "gd_next",
                     !.gd = [NoDegradation EXCEPT
                                !.active = TRUE, !.exporters = exporters,
                                !.fallback_exporters = fallback_exporters,
                                !.idx = 1]]]
    /\ UNCHANGED <<heap, circuit_breakers, retry_handlers, now>>

\* The thread's record when graceful_degradation calls
\* execute_with_resilience(name, ...) for the given phase.
GdExecute(r, name, phase) ==
    [IdleThread EXCEPT !.via = "execute", !.service_name = name,
                       !.pc = "gcb_check", !.hist = r.hist,
                       !.gd = [r.gd EXCEPT !.phase = phase]]

\* GdStore keyed by the name last passed to execute_with_resilience.
GdStoreDerived(r, entry) ==
    [IdleThread EXCEPT
        !.via = "degrade", !.pc = "gd_next", !.hist = r.hist,
        !.gd = [r.gd EXCEPT !.results = Put(@, r.service_name, entry),
                            !.idx = @ + 1, !.phase = "none", !.e = NoError]]

\* The thread's record when the loop's body is through with the current
\* item: results[exporter_name] = entry.
GdStore(r, entry) ==
    [IdleThread EXCEPT
        !.via = "degrade", !.pc = "gd_next", !.hist = r.hist,
        !.gd = [r.gd EXCEPT !.results = Put(@, r.gd.exporters[r.gd.idx], entry),
                            !.idx = @ + 1, !.phase = "none", !.e = NoError]]

\* line 177 and 179: the loop takes its next item and calls
\* execute_with_resilience(exporter_name, exporter_func); line 203 once the
\* items are used up: return results.
GdNext(t) ==
    /\ th[t].pc = "gd_next"
    /\ LET g == th[t].gd
       IN  th' = [th EXCEPT ![t] =
                    IF g.idx <= Len(g.exporters)
                    THEN GdExecute(th[t], g.exporters[g.idx], "primary")
                    ELSE Leave(th[t], "ok", NoError)]
    /\ UNCHANGED <<heap, circuit_breakers, retry_handlers, now>>

\* lines 180-187 and 200-201: the primary's execute_with_resilience has
\* returned or raised.
GdPrimaryDone(t) ==
    /\ th[t].pc = "done"
    /\ th[t].gd.active
    /\ th[t].gd.phase = "primary"
    /\ LET g == th[t].gd
           name == g.exporters[g.idx]
           e == th[t].result.error
       IN  th' = [th EXCEPT ![t] =
                    IF th[t].result.status = "ok"
                    THEN GdStore(th[t], [status |-> "success",
                                         result |-> ResultOf("primary", name)])
                    ELSE IF HasFallback(name, g.fallback_exporters)
                    THEN GdExecute([th[t] EXCEPT !.gd.e = e],
                                   FallbackName(name), "fallback")
                    ELSE GdStore(th[t], [status |-> "failed", error |-> Str(e)])]
    /\ UNCHANGED <<heap, circuit_breakers, retry_handlers, now>>

\* lines 189-199: the fallback's execute_with_resilience has returned or
\* raised.
GdFallbackDone(t) ==
    /\ th[t].pc = "done"
    /\ th[t].gd.active
    /\ th[t].gd.phase = "fallback"
    /\ LET g == th[t].gd
           name == g.exporters[g.idx]
       IN  th' = [th EXCEPT ![t] =
                    IF th[t].result.status = "ok"
                    THEN GdStore(th[t], [status |-> "fallback_success",
                                         fallback_result |-> ResultOf("fallback", name),
                                         original_error |-> Str(g.e)])
                    ELSE GdStore(th[t], [status |-> "failed", error |-> Str(g.e),
                                         fallback_error |-> Str(th[t].result.error)])]
    /\ UNCHANGED <<heap, circuit_breakers, retry_handlers, now>>

\* The caller of graceful_degradation is through with the results.
GdReturn(t) ==
    /\ th[t].via = "degrade"
    /\ Return(t)

(***************************************************************************)
(* The clock.                                                              *)
(***************************************************************************)
\* A second passes.  Apart from the sleeps (Elapse) the clock is looked at
\* second by second.
Tick ==
    /\ now < Seconds(MaxTime)
    /\ now' = now + Seconds(1)
    /\ UNCHANGED <<heap, circuit_breakers, retry_handlers, th>>

\* Time passes while a thread sleeps: up to the instant time.sleep returns,
\* delay seconds after the call (line 94).
Elapse(t) ==
    /\ th[t].pc = "sleeping"
    /\ now < th[t].wake
    /\ now' = th[t].wake
    /\ UNCHANGED <<heap, circuit_breakers, retry_handlers, th>>

\* Time passes between the calls of a single caller: a second, or one second
\* less than the default recovery timeout.
TickBetweenCalls ==
    /\ \E d \in {1, DefaultRecoveryTimeout - 1} :
          /\ now + Seconds(d) <= Seconds(DefaultRecoveryTimeout + MaxTime)
          /\ now' = now + Seconds(d)
    /\ UNCHANGED <<heap, circuit_breakers, retry_handlers, th>>

(***************************************************************************)
(* Two threads share the registered service: concurrent                    *)
(* execute_with_resilience("svc", func) and reset_circuit_breaker(name).   *)
(* The name is registered from the start and entries are never removed, so *)
(* the creating branches of the two getters cannot be entered here.  The   *)
(* clock ticks up to MaxTime and runs on while a thread sleeps; new calls  *)
(* start while the clock is within MaxTime.                                *)
(***************************************************************************)
Next ==
    \/ now <= Seconds(MaxTime) /\ \E t \in Threads : Execute(t, "svc")
    \/ \E t \in Threads : GcbCheck(t)
    \/ \E t \in Threads : GcbReturn(t)
    \/ \E t \in Threads : GrhCheck(t)
    \/ \E t \in Threads : GrhReturn(t)
    \/ \E t \in Threads : Attempt(t)
    \/ \E t \in Threads : Reject(t)
    \/ \E t \in Threads : OperationReturns(t)
    \/ \E t \in Threads, cls \in OpErrorClasses : OperationRaises(t, cls)
    \/ \E t \in Threads : RecordSuccess(t)
    \/ \E t \in Threads : RecordSuccessState(t)
    \/ \E t \in Threads : RecordFailure(t)
    \/ \E t \in Threads : RecordFailureTime(t)
    \/ \E t \in Threads : RecordFailureTrip(t)
    \/ \E t \in Threads : Caught(t)
    \/ \E t \in Threads : Wake(t)
    \/ \E t \in Threads, name \in Services : Reset(t, name)
    \/ \E t \in Threads : ResetLocked(t)
    \/ \E t \in Threads : ResetLockedCount(t)
    \/ \E t \in Threads : Return(t)
    \/ \E t \in Threads : Elapse(t)
    \/ Tick

Spec == Init /\ [][Next]_vars

(***************************************************************************)
(* One caller drives a default-configured breaker through direct           *)
(* breaker.call(func) calls, the clock advancing between them.             *)
(***************************************************************************)
InitE2E ==
    /\ heap = <<NewCircuitBreaker(DefaultCircuitBreakerConfig)>>
    /\ circuit_breakers = [n \in {"svc"} |-> 1]
    /\ retry_handlers = << >>
    /\ now = Seconds(StartTime)
    /\ th = [t \in Threads |-> [IdleThread EXCEPT !.cb = IF t = 1 THEN 1 ELSE 0]]

NextE2E ==
    \/ Call(1)
    \/ Attempt(1)
    \/ Reject(1)
    \/ OperationReturns(1)
    \/ \E cls \in OpErrorClasses : OperationRaises(1, cls)
    \/ RecordSuccess(1)
    \/ RecordSuccessState(1)
    \/ RecordFailure(1)
    \/ RecordFailureTime(1)
    \/ RecordFailureTrip(1)
    \/ Return(1)
    \/ TickBetweenCalls

SpecE2E == InitE2E /\ [][NextE2E]_vars

(***************************************************************************)
(* One caller runs RetryHandler(config).execute_with_retry(func) on an     *)
(* operation of its own, for every configuration within the bounds.        *)
(***************************************************************************)
RetryInputs ==
    {RetryConfig(ma, bd, md, eb, j) :
        ma \in 1 .. MaxAttempts, bd \in 1 .. MaxBase, md \in 1 .. MaxDelay,
        eb \in 1 .. MaxBase, j \in BOOLEAN}

InitRetry ==
    /\ heap = << >>
    /\ circuit_breakers = << >>
    /\ retry_handlers = << >>
    /\ now = Seconds(StartTime)
    /\ th = [t \in Threads |-> IdleThread]

NextRetry ==
    \/ \E config \in RetryInputs : ExecuteWithRetry(1, config)
    \/ Invoke(1)
    \/ OperationReturns(1)
    \/ \E cls \in OpErrorClasses : OperationRaises(1, cls)
    \/ Caught(1)
    \/ Elapse(1)
    \/ Wake(1)
    \/ Return(1)

SpecRetry == InitRetry /\ [][NextRetry]_vars

(***************************************************************************)
(* Two threads use a freshly constructed manager, one call each: the      *)
(* concurrent first uses of service "svc" through execute_with_resilience *)
(* and through a caller's own get_circuit_breaker("svc", config).  Time   *)
(* passes while a thread sleeps.                                          *)
(***************************************************************************)
InitRegistry ==
    /\ heap = << >>
    /\ circuit_breakers = << >>
    /\ retry_handlers = << >>
    /\ now = Seconds(StartTime)
    /\ th = [t \in Threads |-> IdleThread]

NextRegistry ==
    \/ \E t \in Threads : Execute(t, "svc")
    \/ \E t \in Threads, c \in CallerBreakerConfigs : GetCircuitBreaker(t, "svc", c)
    \/ \E t \in Threads : GcbCheck(t)
    \/ \E t \in Threads : GcbCreate(t)
    \/ \E t \in Threads : GcbReturn(t)
    \/ \E t \in Threads : GrhCheck(t)
    \/ \E t \in Threads : GrhCreate(t)
    \/ \E t \in Threads : GrhReturn(t)
    \/ \E t \in Threads : Attempt(t)
    \/ \E t \in Threads : Reject(t)
    \/ \E t \in Threads : OperationReturns(t)
    \/ \E t \in Threads, cls \in OpErrorClasses : OperationRaises(t, cls)
    \/ \E t \in Threads : RecordSuccess(t)
    \/ \E t \in Threads : RecordSuccessState(t)
    \/ \E t \in Threads : RecordFailure(t)
    \/ \E t \in Threads : RecordFailureTime(t)
    \/ \E t \in Threads : RecordFailureTrip(t)
    \/ \E t \in Threads : Caught(t)
    \/ \E t \in Threads : Elapse(t)
    \/ \E t \in Threads : Wake(t)

SpecRegistry == InitRegistry /\ [][NextRegistry]_vars

(***************************************************************************)
(* One caller runs graceful_degradation(exporters, fallback_exporters) on  *)
(* a freshly constructed manager, again and again, for every pair of       *)
(* dicts over the service names, and get_all_health_status() between these *)
(* calls; time passes while the caller sleeps.                             *)
(***************************************************************************)
\* The exporters dicts, as their items in iteration order.
ExporterLists ==
    {<< >>} \cup {<<a>> : a \in Services}
            \cup {<<a, b>> : <<a, b>> \in {p \in Services \X Services : p[1] # p[2]}}

NextDegrade ==
    \/ \E e \in ExporterLists, f \in SUBSET Services : GracefulDegradation(1, e, f)
    \/ GdNext(1)
    \/ GdPrimaryDone(1)
    \/ GdFallbackDone(1)
    \/ GdReturn(1)
    \/ GetAllHealthStatus(1)
    \/ AllNext(1)
    \/ HealthState(1)
    \/ HealthCount(1)
    \/ HealthLast(1)
    \/ AllStore(1)
    \/ AllReturn(1)
    \/ GcbCheck(1)
    \/ GcbCreate(1)
    \/ GcbReturn(1)
    \/ GrhCheck(1)
    \/ GrhCreate(1)
    \/ GrhReturn(1)
    \/ Attempt(1)
    \/ Reject(1)
    \/ OperationReturns(1)
    \/ \E cls \in OpErrorClasses : OperationRaises(1, cls)
    \/ RecordSuccess(1)
    \/ RecordSuccessState(1)
    \/ RecordFailure(1)
    \/ RecordFailureTime(1)
    \/ RecordFailureTrip(1)
    \/ Caught(1)
    \/ Elapse(1)
    \/ Wake(1)

SpecDegrade == InitRegistry /\ [][NextDegrade]_vars

(***************************************************************************)
(* A caller thread runs execute_with_resilience("svc", func) on the        *)
(* registered service while an operator thread asks for health status, of  *)
(* one name or of all, and resets breakers, by registered and by           *)
(* unregistered names.                                                     *)
(***************************************************************************)
NextHealth ==
    \/ Execute(1, "svc")
    \/ GcbCheck(1)
    \/ GcbReturn(1)
    \/ GrhCheck(1)
    \/ GrhReturn(1)
    \/ Attempt(1)
    \/ Reject(1)
    \/ OperationReturns(1)
    \/ \E cls \in OpErrorClasses : OperationRaises(1, cls)
    \/ RecordSuccess(1)
    \/ RecordSuccessState(1)
    \/ RecordFailure(1)
    \/ RecordFailureTime(1)
    \/ RecordFailureTrip(1)
    \/ Caught(1)
    \/ Wake(1)
    \/ \E name \in Services : CheckServiceHealth(2, name)
    \/ HealthState(2)
    \/ HealthCount(2)
    \/ HealthLast(2)
    \/ GetAllHealthStatus(2)
    \/ AllNext(2)
    \/ AllStore(2)
    \/ \E name \in Services : Reset(2, name)
    \/ ResetLocked(2)
    \/ ResetLockedCount(2)
    \/ \E t \in Threads : Return(t)
    \/ Tick

SpecHealth == Init /\ [][NextHealth]_vars

(***************************************************************************)
(* Two threads each run one execute_with_resilience("svc", func) on the    *)
(* registered service.  Every thread keeps being scheduled, every          *)
(* invocation of the operation returns or raises, and time passes while a  *)
(* thread sleeps.                                                          *)
(***************************************************************************)
\* A step of thread t's execute_with_resilience, or of the clock up to the
\* instant at which t's time.sleep returns.
ExecuteStep(t) ==
    \/ Execute(t, "svc")
    \/ GcbCheck(t)
    \/ GcbReturn(t)
    \/ GrhCheck(t)
    \/ GrhReturn(t)
    \/ Attempt(t)
    \/ Reject(t)
    \/ OperationReturns(t)
    \/ \E cls \in OpErrorClasses : OperationRaises(t, cls)
    \/ RecordSuccess(t)
    \/ RecordSuccessState(t)
    \/ RecordFailure(t)
    \/ RecordFailureTime(t)
    \/ RecordFailureTrip(t)
    \/ Caught(t)
    \/ Elapse(t)
    \/ Wake(t)

NextLive == \E t \in Threads : ExecuteStep(t)

SpecLive ==
    Init /\ [][NextLive]_vars /\ \A t \in Threads : WF_vars(ExecuteStep(t))

(***************************************************************************)
(* One caller uses every method of a fresh manager, one call after the     *)
(* other: the getters with and without a config, execute_with_resilience,  *)
(* graceful_degradation, the two status methods and the reset.  New calls  *)
(* start while the clock is within MaxTime.                                *)
(***************************************************************************)
\* The configs a caller passes to get_retry_handler.
CallerRetryChoices == CallerRetryConfigs \cup {DefaultRetryConfig}

NextSeq ==
    \/ /\ now <= Seconds(MaxTime)
       /\ \/ \E name \in Services : Execute(1, name)
          \/ \E c \in CallerBreakerConfigs : GetCircuitBreaker(1, "svc", c)
          \/ \E r \in CallerRetryChoices : GetRetryHandler(1, "svc", r)
          \/ GracefulDegradation(1, <<"svc">>, {"svc"})
          \/ \E name \in Services : CheckServiceHealth(1, name)
          \/ GetAllHealthStatus(1)
          \/ \E name \in Services : Reset(1, name)
    \/ GcbCheck(1)
    \/ GcbCreate(1)
    \/ GcbReturn(1)
    \/ GrhCheck(1)
    \/ GrhCreate(1)
    \/ GrhReturn(1)
    \/ Attempt(1)
    \/ Reject(1)
    \/ OperationReturns(1)
    \/ \E cls \in OpErrorClasses : OperationRaises(1, cls)
    \/ RecordSuccess(1)
    \/ RecordSuccessState(1)
    \/ RecordFailure(1)
    \/ RecordFailureTime(1)
    \/ RecordFailureTrip(1)
    \/ Caught(1)
    \/ Elapse(1)
    \/ Wake(1)
    \/ GdNext(1)
    \/ GdPrimaryDone(1)
    \/ GdFallbackDone(1)
    \/ GdReturn(1)
    \/ HealthState(1)
    \/ HealthCount(1)
    \/ HealthLast(1)
    \/ AllNext(1)
    \/ AllStore(1)
    \/ AllReturn(1)
    \/ ResetLocked(1)
    \/ ResetLockedCount(1)
    \/ ~th[1].gd.active /\ ~th[1].all.active /\ Return(1)

SpecSeq == InitRegistry /\ [][NextSeq]_vars

(***************************************************************************)
(* One caller makes call after call of execute_with_resilience("svc", f)   *)
(* on a fresh manager with an f that always raises; the breaker and the    *)
(* retry handler are made with the defaults by the first call.  Time       *)
(* passes in the retry loop's sleeps; new calls start while the clock is   *)
(* within twice MaxTime, far from the default recovery timeout.            *)
(***************************************************************************)
NextTrip ==
    \/ now <= Seconds(MaxTime + MaxTime) /\ Execute(1, "svc")
    \/ GcbCheck(1)
    \/ GcbCreate(1)
    \/ GcbReturn(1)
    \/ GrhCheck(1)
    \/ GrhCreate(1)
    \/ GrhReturn(1)
    \/ Attempt(1)
    \/ Reject(1)
    \/ \E cls \in OpErrorClasses : OperationRaises(1, cls)
    \/ RecordFailure(1)
    \/ RecordFailureTime(1)
    \/ RecordFailureTrip(1)
    \/ Caught(1)
    \/ Elapse(1)
    \/ Wake(1)
    \/ Return(1)

SpecTrip == InitRegistry /\ [][NextTrip]_vars

(***************************************************************************)
(* One caller keeps calling execute_with_resilience("svc", f) on the       *)
(* registered service while the clock runs: the caller always takes its    *)
(* next step and starts a new call while the clock is within MaxTime, and  *)
(* the clock always ticks up to MaxTime.                                   *)
(***************************************************************************)
StepRecover ==
    \/ now <= Seconds(MaxTime) /\ Execute(1, "svc")
    \/ GcbCheck(1)
    \/ GcbReturn(1)
    \/ GrhCheck(1)
    \/ GrhReturn(1)
    \/ Attempt(1)
    \/ Reject(1)
    \/ OperationReturns(1)
    \/ \E cls \in OpErrorClasses : OperationRaises(1, cls)
    \/ RecordSuccess(1)
    \/ RecordSuccessState(1)
    \/ RecordFailure(1)
    \/ RecordFailureTime(1)
    \/ RecordFailureTrip(1)
    \/ Caught(1)
    \/ Elapse(1)
    \/ Wake(1)
    \/ Return(1)

NextRecover == StepRecover \/ Tick

SpecRecover ==
    Init /\ [][NextRecover]_vars /\ WF_vars(StepRecover) /\ WF_vars(Tick)

(***************************************************************************)
(* The breakers' locks.  Each CircuitBreaker makes a threading.Lock of its *)
(* own (line 34); _can_execute, _on_success, _on_failure and the reset     *)
(* take it with a `with` statement around their assignments (lines 50, 63, *)
(* 68 and 165).  Here the acquisition, the statements of the locked        *)
(* section and the release are steps of their own, th[t].holds being the   *)
(* breaker whose lock thread t holds (0: none); two registered services    *)
(* are used by two threads, one call each.                                 *)
(***************************************************************************)
\* The thread's next statement is a `with self.lock:` / `with cb.lock:`.
AtLock(r) ==
    \/ r.pc = "attempt" /\ r.via \in {"execute", "call"}
    \/ r.pc \in {"on_success", "on_failure", "reset_locked"}

\* The `with` statement taking one lock that all breakers share.
AcquireShared(t) ==
    /\ AtLock(th[t])
    /\ th[t].holds = 0
    /\ \A u \in Threads : th[u].holds = 0
    /\ th' = [th EXCEPT ![t].holds = th[t].cb]
    /\ UNCHANGED <<heap, circuit_breakers, retry_handlers, now>>

\* lines 50, 63, 68, 165: the `with` statement acquires the breaker's lock,
\* waiting while another thread holds it.
Acquire(t) ==
    /\ AtLock(th[t])
    /\ th[t].holds = 0
    /\ \A u \in Threads : th[u].holds # th[t].cb
    /\ th' = [th EXCEPT ![t].holds = th[t].cb]
    /\ UNCHANGED <<heap, circuit_breakers, retry_handlers, now>>

\* The body of the `with` statement, run by the holder of the lock.
LockedSection(t) ==
    /\ th[t].holds # 0
    /\ AtLock(th[t]) \/ InSection(th[t])
    /\ \/ Attempt(t)
       \/ RecordSuccess(t)
       \/ RecordSuccessState(t)
       \/ RecordFailure(t)
       \/ RecordFailureTime(t)
       \/ RecordFailureTrip(t)
       \/ ResetLocked(t)
       \/ ResetLockedCount(t)

\* call() keeping the lock from _can_execute until the operation is over.
ReleaseAfterOperation(t) ==
    /\ th[t].holds # 0
    /\ ~AtLock(th[t])
    /\ ~InSection(th[t])
    /\ th[t].pc # "running"
    /\ th' = [th EXCEPT ![t].holds = 0]
    /\ UNCHANGED <<heap, circuit_breakers, retry_handlers, now>>

\* The `with` statement ends: the lock is released before the method
\* returns to its caller (lines 60, 65, 73, 167).
Release(t) ==
    /\ th[t].holds # 0
    /\ ~AtLock(th[t])
    /\ ~InSection(th[t])
    /\ th' = [th EXCEPT ![t].holds = 0]
    /\ UNCHANGED <<heap, circuit_breakers, retry_handlers, now>>

\* The statements of execute_with_resilience and reset_circuit_breaker
\* outside the `with` statements; a thread reaches them with no lock held.
Unlocked(t) ==
    /\ th[t].holds = 0
    /\ \/ \E name \in Services : Execute(t, name)
       \/ \E name \in Services : Reset(t, name)
       \/ GcbCheck(t)
       \/ GcbReturn(t)
       \/ GrhCheck(t)
       \/ GrhReturn(t)
       \/ Reject(t)
       \/ OperationReturns(t)
       \/ \E cls \in OpErrorClasses : OperationRaises(t, cls)
       \/ Caught(t)
       \/ Elapse(t)
       \/ Wake(t)

\* The manager after its owner has registered the two services.
InitLocks ==
    /\ \E c1, c2 \in CallerBreakerConfigs :
          heap = <<NewCircuitBreaker(c1), NewCircuitBreaker(c2)>>
    /\ circuit_breakers = [n \in Services |-> IF n = "svc" THEN 1 ELSE 2]
    /\ \E r \in CallerRetryConfigs : retry_handlers = [n \in Services |-> r]
    /\ now = Seconds(StartTime)
    /\ th = [t \in Threads |-> IdleThread]

StepLocks(t) ==
    \/ Acquire(t)
    \/ LockedSection(t)
    \/ Release(t)
    \/ Unlocked(t)

NextLocks == \E t \in Threads : StepLocks(t)

\* A thread that has the processor goes on; a thread inside a `with`
\* statement finishes it (the body is a few assignments), whereas the
\* wrapped operation and time.sleep may take for ever.
SpecLocks ==
    /\ InitLocks
    /\ [][NextLocks]_vars
    /\ WF_vars(StepLocks(2))
    /\ WF_vars(LockedSection(1) \/ Release(1))

(***************************************************************************)
(* Steps, as seen from outside a thread.                                   *)
(***************************************************************************)
\* Thread t evaluates _can_execute (line 38) in this step.
Allows(t) ==
    /\ th[t].pc = "attempt"
    /\ th[t].via \in {"execute", "call"}
    /\ th'[t].pc # "attempt"

\* Thread t's _on_failure (line 46) ends in this step.
RecordsFailure(t) == th[t].pc = "on_failure_trip" /\ th'[t].pc # "on_failure_trip"

\* Thread t enters _on_failure and counts the failure (lines 68-69),
\* _on_success and clears the count (lines 63-64), the reset's locked section
\* and closes the breaker (lines 165-166), in this step.
CountsFailure(t) == th[t].pc = "on_failure" /\ th'[t].pc # "on_failure"
ClearsCount(t) == th[t].pc = "on_success" /\ th'[t].pc # "on_success"
ForcesClosed(t) == th[t].pc = "reset_locked" /\ th'[t].pc # "reset_locked"

\* Thread t's _on_failure stores the time of the failure (line 70) in this
\* step.
StampsFailure(t) == th[t].pc = "on_failure_time" /\ th'[t].pc # "on_failure_time"

\* Thread t's _on_success (line 43) ends in this step.
RecordsSuccess(t) == th[t].pc = "on_success_state" /\ th'[t].pc # "on_success_state"

\* Thread t's locked section of reset_circuit_breaker (lines 165-167) ends in
\* this step.
Resets(t) == th[t].pc = "reset_count" /\ th'[t].pc # "reset_count"

\* No thread is between two assignments of a locked section of breaker i.
Settled(i) == \A t \in Threads : ~(InSection(th[t]) /\ th[t].cb = i)

\* The breaker thread t works on: as the thread's locked section found it,
\* and after the step.
Breaker(t) == IF InSection(th[t]) THEN th[t].before ELSE heap[th[t].cb]
BreakerAfter(t) == heap'[th[t].cb]

\* time.time() - last_failure_time has not reached recovery_timeout.
Cooling(b) == now - b.last_failure_time < Seconds(b.config.recovery_timeout)

(***************************************************************************)
(* C1.  A failure recorded on a Closed breaker finds failure_count below   *)
(* failure_threshold T, raises it by exactly one, and opens the breaker    *)
(* exactly when the count reaches T.  Hence, from failure_count 0, the     *)
(* breaker is still Closed after T-1 consecutive failures and Open after   *)
(* the T-th.                                                               *)
(***************************************************************************)
C1_OpensAtThreshold ==
    [][\A t \in Threads :
          (RecordsFailure(t) /\ Breaker(t).state = "closed") =>
              LET T == Breaker(t).config.failure_threshold
              IN  /\ Breaker(t).failure_count < T
                  /\ BreakerAfter(t).failure_count = Breaker(t).failure_count + 1
                  /\ BreakerAfter(t).state =
                        IF BreakerAfter(t).failure_count = T THEN "open" ELSE "closed"]_vars

\* A thread has just recorded the second failure on a Closed breaker of
\* threshold 2, and the breaker is Open.
C1_Witness ==
    \E t \in Threads :
        /\ th[t].pc = "caught"
        /\ th[t].was = "closed"
        /\ Breaker(t).config.failure_threshold = 2
        /\ Breaker(t).failure_count = 2
        /\ Breaker(t).state = "open"

(***************************************************************************)
(* C2.  While the breaker is Open and recovery_timeout has not elapsed     *)
(* since last_failure_time, _can_execute returns False, leaves the state   *)
(* Open, and the call is rejected without starting the wrapped operation:  *)
(* a rejected call only goes on to raise.                                  *)
(***************************************************************************)
C2_OpenRejects ==
    [][\A t \in Threads :
          /\ (Allows(t) /\ Breaker(t).state = "open" /\ Cooling(Breaker(t))) =>
                /\ th'[t].pc = "rejected"
                /\ th'[t].invoked = th[t].invoked
                /\ BreakerAfter(t) = Breaker(t)
          /\ th[t].pc = "rejected" =>
                /\ th'[t].pc \in {"rejected", "caught", "done"}
                /\ th'[t].invoked = th[t].invoked]_vars

\* A first attempt has been rejected by a breaker that is Open and cooling.
C2_Witness ==
    \E t \in Threads :
        /\ th[t].pc = "rejected"
        /\ th[t].calls = 1
        /\ th[t].invoked = 0
        /\ Breaker(t).state = "open"
        /\ Cooling(Breaker(t))

(***************************************************************************)
(* C3.  On an Open breaker, _can_execute evaluated when                    *)
(* now - last_failure_time >= recovery_timeout (equality included) moves   *)
(* the state to HalfOpen and admits the call; _can_execute on a HalfOpen   *)
(* breaker leaves the breaker as it is (no further transition).            *)
(***************************************************************************)
C3_OpenToHalfOpen ==
    [][\A t \in Threads :
          /\ (Allows(t) /\ Breaker(t).state = "open" /\ ~Cooling(Breaker(t))) =>
                /\ BreakerAfter(t) = [Breaker(t) EXCEPT !.state = "half_open"]
                /\ th'[t].pc = "running"
          /\ (Allows(t) /\ Breaker(t).state = "half_open") =>
                BreakerAfter(t) = Breaker(t)]_vars

\* A call admitted exactly recovery_timeout after the last failure runs its
\* operation on a HalfOpen breaker.
C3_Witness ==
    \E t \in Threads :
        /\ th[t].pc = "running"
        /\ Breaker(t).state = "half_open"
        /\ now - Breaker(t).last_failure_time = Seconds(Breaker(t).config.recovery_timeout)

(***************************************************************************)
(* C4.  HalfOpen admits one trial call only: _can_execute evaluated on a   *)
(* breaker that is already HalfOpen (its trial's outcome not yet recorded) *)
(* rejects the caller.                                                     *)
(***************************************************************************)
C4_SingleTrial ==
    [][\A t \in Threads :
          (Allows(t) /\ Breaker(t).state = "half_open") =>
              th'[t].pc = "rejected"]_vars

(***************************************************************************)
(* C5.  A success recorded on a HalfOpen breaker leaves it Closed with     *)
(* failure_count 0.                                                        *)
(***************************************************************************)
C5_HalfOpenSuccessCloses ==
    [][\A t \in Threads :
          (RecordsSuccess(t) /\ Breaker(t).state = "half_open") =>
              /\ BreakerAfter(t).state = "closed"
              /\ BreakerAfter(t).failure_count = 0]_vars

\* A thread has recorded a success on a HalfOpen breaker, which is Closed.
C5_Witness ==
    \E t \in Threads :
        /\ th[t].pc = "done"
        /\ th[t].result.status = "ok"
        /\ th[t].was = "half_open"
        /\ Breaker(t).state = "closed"
        /\ Breaker(t).failure_count = 0

(***************************************************************************)
(* C6.  A failure recorded on a HalfOpen breaker, in whatever way the      *)
(* breaker got there, leaves it Open with last_failure_time set to the     *)
(* time of that failure: the time at which _on_failure reads the clock     *)
(* (line 70), which the end of _on_failure leaves in place.                 *)
(***************************************************************************)
C6_HalfOpenFailureReopens ==
    [][\A t \in Threads :
          /\ (StampsFailure(t) /\ Breaker(t).state = "half_open") =>
                BreakerAfter(t).last_failure_time = now
          /\ (RecordsFailure(t) /\ Breaker(t).state = "half_open") =>
                /\ BreakerAfter(t).state = "open"
                /\ BreakerAfter(t).last_failure_time = heap[th[t].cb].last_failure_time
                /\ BreakerAfter(t).last_failure_time >= Breaker(t).last_failure_time
                /\ BreakerAfter(t).last_failure_time <= now]_vars

\* A thread has recorded a failure on a HalfOpen breaker, later than the
\* failure that opened it; the breaker is Open again and cooling from now.
C6_Witness ==
    \E t \in Threads :
        /\ th[t].pc = "caught"
        /\ th[t].was = "half_open"
        /\ Breaker(t).state = "open"
        /\ Breaker(t).last_failure_time = now
        /\ now > Seconds(StartTime)

\* The first k outcomes of Scenario.
Failures(k) == SubSeq(Scenario, 1, k)

(***************************************************************************)
(* C7.  End to end on a breaker with failure_threshold 5 and               *)
(* recovery_timeout 60: the breaker stays Closed through the first four    *)
(* failing calls and is Open after the fifth; the sixth call runs its      *)
(* operation only if 60 s have passed since the last failure, and is       *)
(* otherwise rejected with "Circuit breaker is open" and no invocation;    *)
(* the seventh call, made once 60 s have passed, runs on a HalfOpen        *)
(* breaker and its success leaves the breaker Closed with failure_count 0. *)
(***************************************************************************)
C7_EndToEnd ==
    LET c == th[1]
        b == heap[1]
        admitted == c.pc \in {"running", "on_success", "on_failure"}
    IN  /\ \A k \in 0 .. 5 :
              (c.hist = Failures(k) /\ c.pc \in {"idle", "attempt", "done"}) =>
                  /\ b.failure_count = k
                  /\ b.state = IF k = 5 THEN "open" ELSE "closed"
        /\ (c.hist \in {Failures(5), Failures(6)} /\ admitted) =>
              /\ now - b.last_failure_time >= Seconds(60)
              /\ b.state = "half_open"
        /\ (c.hist = Failures(5) /\ c.pc = "rejected") =>
              (c.invoked = 0 /\ b.state = "open" /\ b.failure_count = 5)
        /\ (c.hist = Failures(6) /\ c.pc = "done") =>
              /\ c.result = [status |-> "raised", error |-> CircuitOpenError("open", 0)]
              /\ c.invoked = 0
              /\ b.state = "open"
              /\ b.failure_count = 5
        /\ (c.hist = Scenario /\ c.pc = "done") =>
              /\ c.result.status = "ok"
              /\ c.invoked = 1
              /\ c.was = "half_open"
              /\ b.state = "closed"
              /\ b.failure_count = 0

\* The whole run has happened, the seventh call admitted exactly 60 s after
\* the fifth failure.
C7_Witness ==
    /\ th[1].hist = Scenario
    /\ th[1].pc = "done"
    /\ heap[1].config = DefaultCircuitBreakerConfig
    /\ heap[1].state = "closed"
    /\ heap[1].failure_count = 0
    /\ now - heap[1].last_failure_time = Seconds(60)

(***************************************************************************)
(* C8.  execute_with_retry with max_attempts = N >= 1 never calls its      *)
(* operation more than N times, and when it raises (every attempt failed)  *)
(* it has called the operation exactly N times.                            *)
(***************************************************************************)
C8_InvokesAtMostN ==
    \A t \in Threads :
        th[t].via = "retry" =>
            /\ th[t].invoked <= th[t].rh.max_attempts
            /\ (th[t].pc = "done" /\ th[t].result.status = "raised") =>
                  /\ th[t].invoked = th[t].rh.max_attempts
                  /\ th[t].result.error # NoError

\* An operation that failed three times out of three attempts.
C8_Witness ==
    \E t \in Threads :
        /\ th[t].via = "retry"
        /\ th[t].pc = "done"
        /\ th[t].result.status = "raised"
        /\ th[t].rh.max_attempts = 3
        /\ th[t].invoked = 3

C10_DelayWithoutJitter ==
    \A t \in Threads :
        (th[t].pc = "sleeping" /\ ~th[t].rh.jitter) =>
            LET c == th[t].rh
                i == th[t].attempt
                d(j) == IF c.base_delay * Pow(c.exponential_base, j) <= c.max_delay
                        THEN c.base_delay * Pow(c.exponential_base, j)
                        ELSE c.max_delay
            IN  /\ th[t].delay = DelayScale * d(i)
                /\ th[t].delay <= DelayScale * c.max_delay
                /\ i > 0 => DelayScale * d(i - 1) <= th[t].delay

\* A capped delay: base 1, multiplier 2, max 3, after attempt 2.
C10_Witness ==
    \E t \in Threads :
        /\ th[t].pc = "sleeping"
        /\ th[t].rh = RetryConfig(4, 1, 3, 2, FALSE)
        /\ th[t].attempt = 2
        /\ th[t].delay = 3 * DelayScale

(***************************************************************************)
(* C11.  In execute_with_resilience, an attempt the breaker rejects does   *)
(* not start the operation; its exception is caught by the retry loop like *)
(* any other: unless it was the last attempt the thread sleeps for         *)
(* min(base_delay * exponential_base^attempt, max_delay), the delay of an  *)
(* ordinary failure of that attempt, and then takes the next attempt,      *)
(* which evaluates _can_execute again.  Only the last attempt's rejection  *)
(* reaches the caller.                                                     *)
(***************************************************************************)
C11_RejectionConsumesAttempt ==
    [][\A t \in Threads :
          th[t].via = "execute" =>
            LET r == th[t]
                q == th'[t]
                rejection == r.exc.msg # "operation failed"
                backoff == Min(r.rh.base_delay * Pow(r.rh.exponential_base, r.attempt),
                               r.rh.max_delay)
            IN  /\ (r.pc = "rejected" /\ q.pc # "rejected") =>
                      /\ q.pc = "caught"
                      /\ q.invoked = r.invoked
                      /\ q.attempt = r.attempt
                      /\ \E st \in {"closed", "open", "half_open"} :
                            q.exc = CircuitOpenError(st, r.attempt)
                /\ (r.pc = "caught" /\ q.pc # "caught" /\ rejection) =>
                      IF r.attempt < r.rh.max_attempts - 1
                      THEN /\ q.pc = "sleeping"
                           /\ ~r.rh.jitter => q.delay = Seconds(backoff)
                           /\ q.wake = now + q.delay
                      ELSE q.pc = "done" /\ q.result.error = r.exc
                /\ (r.pc = "sleeping" /\ q.pc # "sleeping") =>
                      /\ now >= r.wake
                      /\ q.pc = "attempt"
                      /\ q.attempt = r.attempt + 1
                /\ (r.pc = "attempt" /\ q.pc # "attempt") =>
                      /\ q.calls = r.calls + 1
                      /\ q.pc = IF CanExecute(Breaker(t), now).ok
                                THEN "running" ELSE "rejected"]_vars

\* Both attempts of a call were rejected: the operation never ran, one sleep
\* lay between the two breaker checks, and the caller holds the second
\* rejection.
C11_Witness ==
    \E t \in Threads :
        /\ th[t].via = "execute"
        /\ th[t].pc = "done"
        /\ th[t].rh.max_attempts = 2
        /\ th[t].calls = 2
        /\ th[t].invoked = 0
        /\ th[t].slept = 1
        /\ th[t].result = [status |-> "raised", error |-> CircuitOpenError("open", 1)]

(***************************************************************************)
(* C12.  In execute_with_resilience, when the operation of an attempt      *)
(* returns, _on_success leaves the breaker Closed with failure_count 0 and *)
(* the call returns to its caller with that result: the thread makes no    *)
(* further attempt, breaker check or sleep in this call.                   *)
(***************************************************************************)
C12_SuccessReturnsAtOnce ==
    [][\A t \in Threads :
          th[t].via = "execute" =>
            LET r == th[t]
                q == th'[t]
            IN  /\ (r.pc = "running" /\ q.pc \notin {"running", "on_failure", "caught"}) =>
                      q.pc = "on_success"
                /\ RecordsSuccess(t) =>
                      /\ BreakerAfter(t).state = "closed"
                      /\ BreakerAfter(t).failure_count = 0
                      /\ q.pc = "done"
                      /\ q.result = [status |-> "ok", error |-> NoError]
                      /\ q.calls = r.calls /\ q.calls = r.attempt + 1
                      /\ q.invoked = r.invoked
                      /\ q.slept = r.slept /\ q.slept = r.attempt
                /\ (r.pc = "done" /\ r.result.status = "ok") =>
                      \/ q = r
                      \/ q.pc = "idle" /\ heap' = heap]_vars

\* A call whose first attempt failed and whose second attempt succeeded has
\* returned: two breaker checks, one sleep, the breaker Closed at count 0.
C12_Witness ==
    \E t \in Threads :
        /\ th[t].via = "execute"
        /\ th[t].pc = "done"
        /\ th[t].result.status = "ok"
        /\ th[t].attempt = 1
        /\ th[t].calls = 2
        /\ th[t].invoked = 2
        /\ th[t].slept = 1
        /\ th[t].was = "closed"
        /\ Breaker(t).config.failure_threshold = 2
        /\ Breaker(t).state = "closed"
        /\ Breaker(t).failure_count = 0

(***************************************************************************)
(* C13.  As claimed: whatever the interleaving of concurrent first uses of *)
(* a name, no more CircuitBreaker objects are constructed than there are   *)
(* registered names, and every thread works on the breaker its name is     *)
(* bound to in circuit_breakers.                                           *)
(***************************************************************************)
C13_OneBreakerPerName ==
    /\ Len(heap) <= Cardinality(DOMAIN circuit_breakers)
    /\ \A t \in Threads :
          (th[t].cb # 0 /\ th[t].service_name \in DOMAIN circuit_breakers) =>
              th[t].cb = circuit_breakers[th[t].service_name]

(***************************************************************************)
(* C14.  As claimed: every failure a thread records during                 *)
(* execute_with_resilience(name, ...) raises by exactly one the            *)
(* failure_count of the breaker registered under that name.                *)
(***************************************************************************)
C14_NoLostFailure ==
    [][\A t \in Threads :
          (CountsFailure(t) /\ th[t].via = "execute") =>
              LET b == circuit_breakers[th[t].service_name]
              IN  heap'[b].failure_count = heap[b].failure_count + 1]_vars

\* The exporter names of a graceful_degradation frame: the keys of exporters.
Primaries(g) == {g.exporters[i] : i \in 1 .. Len(g.exporters)}

(***************************************************************************)
(* C15.  graceful_degradation stores for each exporter name the outcome of *)
(* its protected executions: "success" with the primary's result when the  *)
(* primary's execute_with_resilience returns; when it raises and the name  *)
(* has a fallback, the fallback runs under name + "_fallback" and the      *)
(* entry is "fallback_success" with the fallback's result and the          *)
(* primary's error, or "failed" with the primary's and the fallback's      *)
(* errors; when it raises and the name has no fallback, "failed" with the  *)
(* primary's error and no fallback_error key.                              *)
(***************************************************************************)
C15_Classifies ==
    [][\A t \in Threads :
          LET r == th[t]
              q == th'[t]
              g == r.gd
              name == g.exporters[g.idx]
              ok == r.result.status = "ok"
              stored == q.pc = "gd_next" /\ q.gd.idx = g.idx + 1
          IN  (r.pc = "done" /\ g.active /\ g.phase \in {"primary", "fallback"}
                 /\ q # r) =>
                CASE g.phase = "primary" /\ ok ->
                       /\ stored
                       /\ q.gd.results[name] =
                             [status |-> "success", result |-> <<"primary", name>>]
                  [] g.phase = "primary" /\ ~ok /\ name \in g.fallback_exporters ->
                       /\ q.pc = "gcb_check"
                       /\ q.service_name = name \o "_fallback"
                       /\ q.gd.phase = "fallback"
                       /\ q.gd.e = r.result.error
                       /\ q.gd.results = g.results
                  [] g.phase = "primary" /\ ~ok /\ name \notin g.fallback_exporters ->
                       /\ stored
                       /\ q.gd.results[name] =
                             [status |-> "failed", error |-> r.result.error.msg]
                  [] g.phase = "fallback" /\ ok ->
                       /\ stored
                       /\ q.gd.results[name] =
                             [status |-> "fallback_success",
                              fallback_result |-> <<"fallback", name>>,
                              original_error |-> g.e.msg]
                  [] g.phase = "fallback" /\ ~ok ->
                       /\ stored
                       /\ q.gd.results[name] =
                             [status |-> "failed", error |-> g.e.msg,
                              fallback_error |-> r.result.error.msg]]_vars

\* A call has returned with one exporter served by its fallback and the
\* other failed with its fallback failing too.
C15_Witness ==
    \E t \in Threads :
        /\ th[t].via = "degrade"
        /\ th[t].pc = "done"
        /\ th[t].gd.exporters = <<"svc", "svc_fallback">>
        /\ th[t].gd.results["svc"] =
              [status |-> "fallback_success", fallback_result |-> <<"fallback", "svc">>,
               original_error |-> "operation failed"]
        /\ th[t].gd.results["svc_fallback"] =
              [status |-> "failed", error |-> "operation failed",
               fallback_error |-> "operation failed"]

(***************************************************************************)
(* C16.  graceful_degradation never raises: whatever the primaries and     *)
(* fallbacks do (operation errors, rejections, exhausted retries), it      *)
(* returns, and the mapping it returns has exactly the exporter names as   *)
(* its keys; while it runs it holds an entry for each exporter already     *)
(* handled and for no other name.                                          *)
(***************************************************************************)
C16_NeverRaises ==
    \A t \in Threads :
        LET g == th[t].gd
        IN  /\ (th[t].via = "degrade" /\ th[t].pc = "done") =>
                  /\ th[t].result = [status |-> "ok", error |-> NoError]
                  /\ DOMAIN g.results = Primaries(g)
            /\ (g.active /\ th[t].pc # "done") =>
                  DOMAIN g.results = {g.exporters[i] : i \in 1 .. g.idx - 1}
            /\ (g.active /\ th[t].pc = "done") =>
                  th[t].via \in {"degrade", "execute"}

\* A call has returned although a primary with a fallback failed together
\* with its fallback and the last attempt of another primary was rejected.
C16_Witness ==
    \E t \in Threads :
        /\ th[t].via = "degrade"
        /\ th[t].pc = "done"
        /\ th[t].gd.exporters = <<"svc", "svc_fallback">>
        /\ th[t].gd.fallback_exporters = {"svc"}
        /\ th[t].gd.results["svc"].status = "failed"
        /\ th[t].gd.results["svc_fallback"] =
              [status |-> "failed", error |-> "Circuit breaker is open"]

(***************************************************************************)
(* C17.  As claimed: while the fallback of an exporter runs, the breaker   *)
(* of no exporter name changes, and while a primary runs, the breaker      *)
(* bound to no exporter's derived name (name + "_fallback") changes.       *)
(***************************************************************************)
C17_FallbackStateSeparate ==
    [][\A t \in Threads :
          LET g == th[t].gd
              same(n) == n \in DOMAIN circuit_breakers =>
                            /\ circuit_breakers'[n] = circuit_breakers[n]
                            /\ heap'[circuit_breakers[n]] = heap[circuit_breakers[n]]
          IN  /\ (g.active /\ g.phase = "fallback") =>
                    \A n \in Primaries(g) : same(n)
              /\ (g.active /\ g.phase = "primary") =>
                    \A n \in Primaries(g) \cap g.fallback_exporters :
                        same(n \o "_fallback")]_vars

\* Thread t takes a step of check_service_health: its call or one of its reads.
HealthStep(t) ==
    /\ th'[t] # th[t]
    /\ \/ th[t].via = "health" /\ th[t].pc # "done"
       \/ th[t].pc = "idle" /\ th'[t].via = "health"

(***************************************************************************)
(* C18.  check_service_health(name) returns the "unknown" dict exactly     *)
(* when name has no entry in circuit_breakers, and otherwise a dict with   *)
(* status, failure_count and last_failure; none of its steps adds a        *)
(* registry entry, constructs a breaker or changes a breaker's state,      *)
(* failure_count or last_failure_time.                                     *)
(***************************************************************************)
C18_StatusReadOnly ==
    [][\A t \in Threads :
          HealthStep(t) =>
              /\ heap' = heap
              /\ circuit_breakers' = circuit_breakers
              /\ retry_handlers' = retry_handlers
              /\ th'[t].pc = "done" =>
                    LET name == th'[t].service_name
                        h == th'[t].health
                    IN  /\ h.service = name
                        /\ h.status = "unknown" <=> name \notin DOMAIN circuit_breakers
                        /\ name \notin DOMAIN circuit_breakers =>
                              DOMAIN h = {"status", "service"}
                        /\ name \in DOMAIN circuit_breakers =>
                              /\ DOMAIN h = {"status", "service", "failure_count",
                                             "last_failure"}
                              /\ h.status \in {"closed", "open", "half_open"}]_vars

\* The status of an unregistered name has been returned as "unknown" while
\* the registered breaker is Open; the registry still holds that one name.
C18_Witness ==
    \E t \in Threads :
        /\ th[t].via = "health"
        /\ th[t].pc = "done"
        /\ th[t].health = [status |-> "unknown", service |-> "svc_fallback"]
        /\ DOMAIN circuit_breakers = {"svc"}
        /\ Len(heap) = 1
        /\ heap[1].state = "open"

(***************************************************************************)
(* C19.  reset_circuit_breaker(name) for a name with no entry in           *)
(* circuit_breakers returns normally with the "not found" notice: it       *)
(* raises nothing, adds no entry to either registry, constructs no breaker *)
(* and leaves every breaker as it is.                                      *)
(***************************************************************************)
C19_ResetNotFound ==
    [][\A t \in Threads, name \in Services :
          (th[t].pc = "idle" /\ th'[t].via = "reset" /\ th'[t].service_name = name
             /\ name \notin DOMAIN circuit_breakers) =>
              /\ th'[t].pc = "done"
              /\ th'[t].result = [status |-> "not_found", error |-> NoError]
              /\ circuit_breakers' = circuit_breakers
              /\ retry_handlers' = retry_handlers
              /\ heap' = heap]_vars

\* A reset of the unregistered name has reported "not found"; the registry
\* holds the one registered name and its breaker is still Open.
C19_Witness ==
    \E t \in Threads :
        /\ th[t].via = "reset"
        /\ th[t].pc = "done"
        /\ th[t].service_name = "svc_fallback"
        /\ th[t].result.status = "not_found"
        /\ DOMAIN circuit_breakers = {"svc"}
        /\ Len(heap) = 1
        /\ heap[1].state = "open"
        /\ heap[1].failure_count > 0

(***************************************************************************)
(* C20.  The locked section of reset_circuit_breaker(name), on a breaker   *)
(* in any state, sets state to Closed and failure_count to 0 and changes   *)
(* nothing else: last_failure_time and the configuration stay, and the     *)
(* name stays bound to the same breaker.  Between its two assignments no   *)
(* other thread changes the breaker or has _can_execute, _on_success or    *)
(* _on_failure act on it.  _can_execute on the breaker as the reset leaves *)
(* it returns True, whether or not recovery_timeout has elapsed since      *)
(* last_failure_time.                                                      *)
(***************************************************************************)
C20_ResetCloses ==
    [][/\ \A t \in Threads :
          (th[t].pc = "reset_count" /\ th'[t].pc = "reset_count") =>
              /\ heap'[th[t].cb] = heap[th[t].cb]
              /\ \A u \in Threads \ {t} :
                    th[u].cb = th[t].cb =>
                        ~(Allows(u) \/ RecordsSuccess(u) \/ RecordsFailure(u))
      /\ \A t \in Threads :
          Resets(t) =>
              /\ Breaker(t).state \in {"closed", "open", "half_open"}
              /\ BreakerAfter(t).state = "closed"
              /\ BreakerAfter(t).failure_count = 0
              /\ BreakerAfter(t).last_failure_time = Breaker(t).last_failure_time
              /\ BreakerAfter(t).config = Breaker(t).config
              /\ circuit_breakers' = circuit_breakers
              /\ circuit_breakers[th[t].service_name] = th[t].cb
              /\ Len(heap') = Len(heap)
              /\ th'[t].pc = "done" /\ th'[t].result.status = "ok"
              /\ CanExecute(BreakerAfter(t), now) =
                    [ok |-> TRUE, cb |-> BreakerAfter(t)]
      /\ \A u \in Threads :
            (Allows(u) /\ Breaker(u).state = "closed") =>
                (th'[u].pc = "running" /\ BreakerAfter(u) = Breaker(u))]_vars

\* A reset has closed a breaker that was Open and whose recovery_timeout has
\* not elapsed since its last failure.
C20_Witness ==
    \E t \in Threads :
        /\ th[t].via = "reset"
        /\ th[t].pc = "done"
        /\ th[t].result.status = "ok"
        /\ th[t].was = "open"
        /\ Breaker(t).state = "closed"
        /\ Breaker(t).failure_count = 0
        /\ Breaker(t).last_failure_time > 0
        /\ Cooling(Breaker(t))

\* The dict check_service_health returns for a registered name, read from the
\* breaker as it is now.
StatusNow(name) ==
    LET b == heap[circuit_breakers[name]]
    IN  [status |-> b.state, service |-> name, failure_count |-> b.failure_count,
         last_failure |-> b.last_failure_time]

(***************************************************************************)
(* C21.  get_all_health_status(), called while no other call is in         *)
(* progress, returns a dict whose keys are exactly the names in            *)
(* circuit_breakers, names registered only as derived "_fallback" names    *)
(* included; each is bound to the dict check_service_health returns for    *)
(* it, none of them "unknown"; while it runs, the dict holds the names     *)
(* already visited.                                                        *)
(***************************************************************************)
C21_AllStatuses ==
    \A t \in Threads :
        LET a == th[t].all
        IN  /\ (th[t].via = "all_health" /\ th[t].pc = "done") =>
                  /\ th[t].result = [status |-> "ok", error |-> NoError]
                  /\ DOMAIN a.results = DOMAIN circuit_breakers
            /\ a.active =>
                  /\ DOMAIN a.results \subseteq DOMAIN circuit_breakers
                  /\ Cardinality(DOMAIN a.results) = a.pos - 1
                  /\ \A n \in DOMAIN a.results :
                        /\ a.results[n] = StatusNow(n)
                        /\ a.results[n].status # "unknown"

\* The dict returned holds the three names two graceful_degradation calls
\* have registered, among them the derived name of "svc_fallback", whose
\* breaker is not in its initial state.
C21_Witness ==
    \E t \in Threads :
        /\ th[t].via = "all_health"
        /\ th[t].pc = "done"
        /\ DOMAIN th[t].all.results = {"svc", "svc_fallback", "svc_fallback_fallback"}
        /\ th[t].all.results["svc_fallback_fallback"].failure_count > 0
        /\ th[t].all.results["svc"].status = "open"

(***************************************************************************)
(* C22.  Every execute_with_resilience call ends, having entered           *)
(* breaker.call at most max_attempts times.  The exception a rejected      *)
(* attempt hands to the retry loop is that attempt's rejection, the one a  *)
(* failed operation hands to it is the operation's own error of that       *)
(* attempt; the exception caught at the last attempt is what the caller    *)
(* gets, after exactly max_attempts attempts.                              *)
(***************************************************************************)
C22_Terminates ==
    /\ \A t \in Threads :
          (th[t].via = "execute") ~>
              /\ th[t].pc = "done"
              /\ th[t].calls <= th[t].rh.max_attempts
              /\ th[t].result.status = "raised" =>
                    /\ th[t].calls = th[t].rh.max_attempts
                    /\ th[t].result.error.attempt = th[t].rh.max_attempts - 1
    /\ [][\A t \in Threads :
            LET r == th[t]
                q == th'[t]
            IN  /\ (r.pc = "rejected" /\ q.pc = "caught") =>
                      \E st \in {"closed", "open", "half_open"} :
                          q.exc = CircuitOpenError(st, r.attempt)
                /\ (r.pc \in {"running", "on_failure_trip"} /\ q.pc = "caught") =>
                      \E cls \in OpErrorClasses : q.exc = OperationError(cls, r.attempt)
                /\ (r.pc = "caught" /\ q.pc # "caught"
                       /\ r.attempt = r.rh.max_attempts - 1) =>
                      /\ q.pc = "done"
                      /\ q.result = [status |-> "raised", error |-> r.exc]
                      /\ q.calls = r.rh.max_attempts]_vars

\* Both calls have ended with their attempts used up: one caller holds the
\* rejection of its last attempt, the other its operation's last error.
C22_Witness ==
    \E t \in Threads, u \in Threads :
        /\ th[t].pc = "done" /\ th[u].pc = "done"
        /\ th[t].calls = 2 /\ th[u].calls = 2
        /\ th[t].result = [status |-> "raised", error |-> CircuitOpenError("open", 1)]
        /\ th[u].result.status = "raised"
        /\ th[u].result.error.msg = "operation failed"
        /\ th[u].result.error.attempt = 1

\* An exception held by a caller comes from a rejection, not from the wrapped
\* operation.
IsRejection(e) == e # NoError /\ e.msg # "operation failed"

C24_MachineTransitions ==
    [][\A i \in 1 .. Len(heap) :
          heap'[i].state # heap[i].state =>
              \E t \in Threads :
                  /\ th[t].cb = i
                  /\ LET from == heap[i].state
                         to == heap'[i].state
                     IN  \/ /\ from = "closed" /\ to = "open"
                            /\ RecordsFailure(t)
                            /\ heap'[i].failure_count >= heap[i].config.failure_threshold
                         \/ /\ from = "open" /\ to = "half_open"
                            /\ Allows(t)
                            /\ ~Cooling(heap[i])
                         \/ from = "half_open" /\ to = "closed" /\ RecordsSuccess(t)
                         \/ from = "half_open" /\ to = "open" /\ RecordsFailure(t)
                         \/ to = "closed" /\ ForcesClosed(t)]_vars

\* Thread t raises the rejection of line 40 in this step.
RaisesRejection(t) == th[t].pc = "rejected" /\ th'[t].pc # "rejected"

\* Thread t takes a step of get_all_health_status, its nested
\* check_service_health calls included.
AllStep(t) == th'[t] # th[t] /\ (th[t].all.active \/ th'[t].all.active)

(***************************************************************************)
(* C25.  failure_count changes only in _on_success (line 64) and in the    *)
(* reset (line 167), which both leave it 0 whatever it was, and in         *)
(* _on_failure (line 69), which adds one: _can_execute (admitting,         *)
(* rejecting, or moving Open to HalfOpen), the raise of a rejection, the   *)
(* other statements of the three locked sections and the status reads      *)
(* leave it as it is.                                                      *)
(***************************************************************************)
C25_CountResets ==
    [][/\ \A i \in 1 .. Len(heap) :
            heap'[i].failure_count # heap[i].failure_count =>
                \E t \in Threads :
                    /\ th[t].cb = i
                    /\ \/ ClearsCount(t) /\ heap'[i].failure_count = 0
                       \/ Resets(t) /\ heap'[i].failure_count = 0
                       \/ /\ CountsFailure(t)
                          /\ heap'[i].failure_count = heap[i].failure_count + 1
      /\ \A t \in Threads :
            /\ (RecordsSuccess(t) \/ Resets(t)) => BreakerAfter(t).failure_count = 0
            /\ RecordsFailure(t) =>
                  BreakerAfter(t).failure_count = Breaker(t).failure_count + 1
            /\ (Allows(t) \/ HealthStep(t) \/ RaisesRejection(t) \/ StampsFailure(t)
                  \/ RecordsFailure(t) \/ RecordsSuccess(t) \/ ForcesClosed(t)) =>
                  \A i \in 1 .. Len(heap) :
                      heap'[i].failure_count = heap[i].failure_count]_vars

\* A call runs on a breaker that _can_execute has moved from Open to HalfOpen
\* with its failure_count of 2 kept, and a status read has reported that
\* count.
C25_Witness ==
    /\ th[1].pc = "running"
    /\ heap[1].state = "half_open"
    /\ heap[1].failure_count = 2
    /\ th[2].via = "health"
    /\ th[2].pc = "done"
    /\ th[2].health.status = "half_open"
    /\ th[2].health.failure_count = 2

(***************************************************************************)
(* C26.  last_failure_time changes only in _on_failure, whose line 70 sets  *)
(* it to time.time(), every _on_failure passing that line: _can_execute    *)
(* (admitting or rejecting), _on_success, the reset, check_service_health  *)
(* and get_all_health_status leave it as it is.                            *)
(***************************************************************************)
C26_LastFailureTime ==
    [][/\ \A i \in 1 .. Len(heap) :
            heap'[i].last_failure_time # heap[i].last_failure_time =>
                \E t \in Threads : th[t].cb = i /\ StampsFailure(t)
      /\ \A t \in Threads :
            /\ StampsFailure(t) => BreakerAfter(t).last_failure_time = now
            /\ CountsFailure(t) => th'[t].pc = "on_failure_time"
            /\ RecordsFailure(t) =>
                  /\ BreakerAfter(t).last_failure_time <= now
                  /\ BreakerAfter(t).last_failure_time >= Breaker(t).last_failure_time
            /\ (Allows(t) \/ ClearsCount(t) \/ RecordsSuccess(t) \/ ForcesClosed(t)
                  \/ Resets(t) \/ HealthStep(t) \/ AllStep(t)) =>
                  \A i \in 1 .. Len(heap) :
                      heap'[i].last_failure_time = heap[i].last_failure_time]_vars

\* After a failure at a later time than the start and a reset, a status of
\* all names reports the breaker Closed at count 0 with the time of that
\* failure.
C26_Witness ==
    /\ th[2].via = "all_health"
    /\ th[2].pc = "done"
    /\ th[2].all.results["svc"].status = "closed"
    /\ th[2].all.results["svc"].failure_count = 0
    /\ th[2].all.results["svc"].last_failure > Seconds(StartTime)
    /\ heap[1].last_failure_time = th[2].all.results["svc"].last_failure

\* The breaker of line 31-34 is never left Closed with failure_count at or
\* above its failure_threshold by a locked section: _on_failure opens it in
\* the same locked section that brings the count there, and the reset
\* clears the count in the section that closes it.
ClosedBelowThreshold ==
    \A i \in 1 .. Len(heap) :
        (Settled(i) /\ heap[i].state = "closed") =>
            heap[i].failure_count < heap[i].config.failure_threshold

(***************************************************************************)
(* C27.  As claimed: the dict check_service_health returns for a           *)
(* registered name is a snapshot of the breaker at one instant, so, the    *)
(* breaker never being Closed with failure_count at or above its           *)
(* failure_threshold, no returned dict has status "closed" with a          *)
(* failure_count at or above that threshold, whatever other threads record *)
(* or reset meanwhile.                                                     *)
(***************************************************************************)
C27_ConsistentSnapshot ==
    /\ ClosedBelowThreshold
    /\ \A t \in Threads :
          (/\ th[t].via = "health"
           /\ th[t].pc = "done"
           /\ th[t].health.status = "closed") =>
              th[t].health.failure_count
                  < heap[circuit_breakers[th[t].health.service]].config.failure_threshold

\* Thread t takes this step, in a call on service `name`.
StepOn(t, name) ==
    /\ th'[t] # th[t]
    /\ name \in {th[t].service_name, th'[t].service_name}

(***************************************************************************)
(* C28.  A step of execute_with_resilience or reset_circuit_breaker on one *)
(* registered name (getting the breaker, _can_execute, the rejection, the  *)
(* operation, _on_success, _on_failure, the reset) leaves the breaker of   *)
(* every other registered name as it is, and a thread about to take the    *)
(* lock of one breaker can take it while another thread holds the lock of  *)
(* another breaker.                                                        *)
(***************************************************************************)
C28_Independent ==
    [][\A t \in Threads : \A a, b \in DOMAIN circuit_breakers :
          /\ (StepOn(t, a) /\ b # a) =>
                /\ circuit_breakers'[b] = circuit_breakers[b]
                /\ heap'[circuit_breakers[b]] = heap[circuit_breakers[b]]
          /\ \A u \in Threads :
                (/\ th[t].holds = circuit_breakers[a]
                 /\ th[u].cb = circuit_breakers[b]
                 /\ b # a
                 /\ AtLock(th[u])
                 /\ th[u].holds = 0) => ENABLED Acquire(u)]_vars

\* Service "svc" has opened on a failure while "svc_fallback" is as it was
\* registered, and the two threads are inside locked sections of the two
\* breakers at the same time.
C28_Witness ==
    /\ th[1].holds = circuit_breakers["svc"]
    /\ th[2].holds = circuit_breakers["svc_fallback"]
    /\ heap[circuit_breakers["svc"]].state = "open"
    /\ heap[circuit_breakers["svc_fallback"]] =
          NewCircuitBreaker(heap[circuit_breakers["svc_fallback"]].config)
    /\ th[2].pc = "on_failure"

\* Thread t's wrapped operation returns or raises in this step.
OperationEnds(t) == th[t].pc = "running" /\ th'[t].pc # "running"

(***************************************************************************)
(* C29.  No thread holds a breaker's lock when its wrapped operation runs  *)
(* to its end or while it is in time.sleep, so a call of another thread,   *)
(* on the same service or another, gets through _can_execute, its          *)
(* operation and _on_success / _on_failure to its end whether or not the   *)
(* first thread's operation or sleep ever ends.                            *)
(***************************************************************************)
C29_LockFreeWhileRunning ==
    /\ [][\A t \in Threads :
             /\ OperationEnds(t) => th[t].holds = 0
             /\ th'[t].pc = "sleeping" => th'[t].holds = 0]_vars
    /\ (th[2].pc # "idle") ~> (th[2].pc = "done" /\ th[2].holds = 0)

\* Thread 1 is in time.sleep after a failure on "svc", holding no lock, and
\* thread 2's call on "svc" has returned, its success recorded after that
\* failure.
C29_Witness ==
    /\ th[1].pc = "sleeping"
    /\ now < th[1].wake
    /\ th[1].service_name = "svc"
    /\ th[1].holds = 0
    /\ th[2].via = "execute"
    /\ th[2].service_name = "svc"
    /\ th[2].pc = "done"
    /\ th[2].result.status = "ok"
    /\ th[2].holds = 0
    /\ heap[1].failure_count = 0
    /\ heap[1].last_failure_time = now

(***************************************************************************)
(* C30.  execute_with_retry sleeps after a failed attempt that is not the  *)
(* last one, and then only: the sleep that follows i earlier sleeps comes  *)
(* after attempt i (calls = i + 1) and lasts the delay _calculate_delay    *)
(* gives for attempt i; an attempt that returns ends the run with no       *)
(* sleep; a run that ends after k attempts has slept k - 1 times.          *)
(***************************************************************************)
C30_SleepsBetweenAttempts ==
    [][LET r == th[1]
           q == th'[1]
       IN  (r.via = "retry" /\ q.via = "retry") =>
             /\ (q.pc = "sleeping" /\ r.pc # "sleeping") =>
                   /\ r.pc = "caught"
                   /\ r.calls = r.slept + 1
                   /\ r.calls < r.rh.max_attempts
                   /\ \E k \in JitterDraws :
                         q.delay = CalculateDelay(r.rh, r.slept, k)
             /\ q.slept # r.slept =>
                   /\ r.pc = "sleeping"
                   /\ now >= r.wake
                   /\ q.slept = r.slept + 1
             /\ (r.pc = "running" /\ q.result.status = "ok") =>
                   /\ q.pc = "done"
                   /\ q.slept = r.slept
             /\ (q.pc = "done" /\ r.pc # "done") =>
                   /\ q.calls >= 1
                   /\ q.slept = q.calls - 1]_vars

\* A run of three attempts, the third returning: two sleeps.
C30_Witness ==
    /\ th[1].via = "retry"
    /\ th[1].pc = "done"
    /\ th[1].result.status = "ok"
    /\ th[1].calls = 3
    /\ th[1].slept = 2
    /\ th[1].rh.max_attempts = 4

(***************************************************************************)
(* C31.  Whatever calls are made one after the other (                     *)
(* execute_with_resilience, graceful_degradation, check_service_health,    *)
(* get_all_health_status, reset_circuit_breaker, the getters), every step  *)
(* keeps each name of circuit_breakers and the breaker instance it is      *)
(* bound to; a name is added only by line 121 of get_circuit_breaker, for  *)
(* a name not yet there; breakers are never discarded; the reset changes   *)
(* fields of the bound instance and nothing of the dict; two names never   *)
(* share an instance.                                                      *)
(***************************************************************************)
C31_RegistryGrowsOnly ==
    [][/\ DOMAIN circuit_breakers \subseteq DOMAIN circuit_breakers'
       /\ \A n \in DOMAIN circuit_breakers :
             circuit_breakers'[n] = circuit_breakers[n]
       /\ Len(heap') >= Len(heap)
       /\ \A i \in 1 .. Len(heap) : heap'[i].config = heap[i].config
       /\ DOMAIN circuit_breakers' # DOMAIN circuit_breakers =>
             /\ th[1].pc = "gcb_create"
             /\ th[1].service_name \notin DOMAIN circuit_breakers
             /\ DOMAIN circuit_breakers' =
                   DOMAIN circuit_breakers \cup {th[1].service_name}
       /\ Resets(1) =>
             /\ circuit_breakers' = circuit_breakers
             /\ Len(heap') = Len(heap)
             /\ heap'[th[1].cb] = ResetBreaker(Breaker(1))
       /\ \A n, m \in DOMAIN circuit_breakers' :
             n # m => circuit_breakers'[n] # circuit_breakers'[m]]_vars

\* Both names are registered and the reset of "svc", found Open, has left
\* it bound to the instance it was bound to.
C31_Witness ==
    /\ th[1].via = "reset"
    /\ th[1].pc = "done"
    /\ th[1].was = "open"
    /\ th[1].service_name = "svc"
    /\ DOMAIN circuit_breakers = Services
    /\ circuit_breakers["svc"] = th[1].cb
    /\ heap[th[1].cb].state = "closed"

(***************************************************************************)
(* C32.  In graceful_degradation the fallback function of an exporter name *)
(* is run (under name + "_fallback") only once the name's own              *)
(* execute_with_resilience has raised, and a primary that returned is      *)
(* followed by no fallback; every function invoked and every registry      *)
(* entry made belongs to a key of exporters or to the fallback of such a   *)
(* key, so a fallback_exporters key that is no key of exporters is never   *)
(* used; a primary whose breaker is Open and still cooling is rejected     *)
(* without being invoked, and when none of its attempts was invoked and it *)
(* has a fallback, the fallback is run.                                    *)
(***************************************************************************)
C32_FallbackAfterFailure ==
    [][LET r == th[1]
           q == th'[1]
           g == r.gd
           name == g.exporters[g.idx]
           used == Primaries(g) \cup
                     {FallbackName(p) : p \in Primaries(g) \cap g.fallback_exporters}
       IN  (g.active /\ q # r) =>
             /\ (q.gd.phase = "fallback" /\ g.phase # "fallback") =>
                   /\ g.phase = "primary"
                   /\ r.pc = "done"
                   /\ r.result.status = "raised"
                   /\ name \in g.fallback_exporters
                   /\ q.service_name = FallbackName(name)
             /\ (r.pc = "done" /\ g.phase = "primary" /\ r.result.status = "ok") =>
                   q.gd.phase = "none"
             /\ q.invoked = r.invoked + 1 =>
                   /\ r.service_name \in used
                   /\ r.service_name =
                         IF g.phase = "primary" THEN name ELSE FallbackName(name)
                   /\ g.phase = "fallback" => name \in g.fallback_exporters
             /\ (DOMAIN circuit_breakers' \ DOMAIN circuit_breakers) \subseteq used
             /\ (DOMAIN retry_handlers' \ DOMAIN retry_handlers) \subseteq used
             /\ (/\ r.pc = "attempt"
                 /\ g.phase = "primary"
                 /\ Breaker(1).state = "open"
                 /\ Cooling(Breaker(1))) =>
                   /\ q.pc = "rejected"
                   /\ q.invoked = r.invoked
             /\ (/\ r.pc = "done"
                 /\ g.phase = "primary"
                 /\ r.invoked = 0
                 /\ name \in g.fallback_exporters) =>
                   q.gd.phase = "fallback"]_vars

\* The fallback of "svc" is running after every attempt of the primary was
\* rejected by its Open breaker; fallback_exporters also has a key that is
\* no exporter, for which nothing is registered.
C32_Witness ==
    /\ th[1].gd.active
    /\ th[1].gd.phase = "fallback"
    /\ th[1].gd.exporters = <<"svc">>
    /\ th[1].gd.fallback_exporters = Services
    /\ th[1].pc = "running"
    /\ th[1].service_name = "svc_fallback"
    /\ IsRejection(th[1].gd.e)
    /\ heap[circuit_breakers["svc"]].state = "open"
    /\ DOMAIN circuit_breakers = Services

(***************************************************************************)
(* C33.  As claimed: in every reachable state of a breaker, whatever the   *)
(* interleaving of calls and resets of two threads, a breaker that is Open *)
(* or HalfOpen has failure_count at or above its failure_threshold.        *)
(***************************************************************************)
C33_EveryState ==
    \A i \in 1 .. Len(heap) :
        heap[i].state \in {"open", "half_open"} =>
            heap[i].failure_count >= heap[i].config.failure_threshold

(***************************************************************************)
(* C33, amended.  Whatever the interleaving of calls and resets of two     *)
(* threads, a breaker that is Open or HalfOpen has failure_count at or     *)
(* above its failure_threshold whenever no thread is between two           *)
(* assignments of one of its locked sections, that is in every state       *)
(* another _can_execute, _on_success, _on_failure or reset can find: the   *)
(* count is cleared only in a locked section that sets the state to Closed *)
(* (_on_success, the reset), Open is entered only by _on_failure with the  *)
(* count at or above the threshold, and a thread enters a locked section   *)
(* only when no other thread is inside one of the same breaker.  The only  *)
(* states where an Open or HalfOpen breaker is below its threshold are     *)
(* those inside _on_success, after line 64 and before line 65, where the   *)
(* count is already 0 and the state not yet Closed.                        *)
(***************************************************************************)
C33_NotClosedAtThreshold ==
    /\ \A i \in 1 .. Len(heap) :
          (Settled(i) /\ heap[i].state \in {"open", "half_open"}) =>
              heap[i].failure_count >= heap[i].config.failure_threshold
    /\ \A t, u \in Threads :
          (t # u /\ InSection(th[t]) /\ InSection(th[u])) => th[t].cb # th[u].cb
    /\ \A t \in Threads :
          (InSection(th[t]) /\ th[t].before.state \in {"open", "half_open"}) =>
              th[t].before.failure_count >= th[t].before.config.failure_threshold
    /\ \A i \in 1 .. Len(heap) :
          (/\ heap[i].state \in {"open", "half_open"}
           /\ heap[i].failure_count < heap[i].config.failure_threshold) =>
              \E t \in Threads :
                  /\ th[t].cb = i
                  /\ th[t].pc = "on_success_state"
                  /\ heap[i].failure_count = 0

\* A reset found the breaker Open; the other thread's failure, recorded
\* after it on the Closed breaker, leaves the breaker Closed below its
\* threshold of 2.
C33_Witness ==
    \E t, u \in Threads :
        /\ th[t].via = "reset"
        /\ th[t].pc = "done"
        /\ th[t].was = "open"
        /\ th[u].pc = "caught"
        /\ th[u].was = "closed"
        /\ heap[1].config.failure_threshold = 2
        /\ heap[1].state = "closed"
        /\ heap[1].failure_count = 1

\* Thread t's _can_execute returns False in this step.
IsRejected(t) == Allows(t) /\ th'[t].pc = "rejected"

(***************************************************************************)
(* C34.  An attempt that _can_execute rejects changes nothing of the       *)
(* breaker, neither in the locked section that returns False nor when      *)
(* call() raises: state, failure_count and last_failure_time are as        *)
(* before, so the instant last_failure_time + recovery_timeout from which  *)
(* the breaker may go HalfOpen is not moved, and the operation is not      *)
(* started.                                                                *)
(***************************************************************************)
C34_RejectionLeavesBreaker ==
    [][\A t \in Threads :
          (IsRejected(t) \/ RaisesRejection(t)) =>
              /\ heap' = heap
              /\ BreakerAfter(t).last_failure_time + Seconds(BreakerAfter(t).config.recovery_timeout)
                    = Breaker(t).last_failure_time + Seconds(Breaker(t).config.recovery_timeout)
              /\ th'[t].invoked = th[t].invoked
              /\ IsRejected(t) => Breaker(t).state = "open" /\ Cooling(Breaker(t))]_vars

\* A call whose two attempts, a sleep apart, were both rejected: the
\* breaker is Open with the failure time it had, now in the past.
C34_Witness ==
    \E t \in Threads :
        /\ th[t].via = "execute"
        /\ th[t].pc = "done"
        /\ IsRejection(th[t].result.error)
        /\ th[t].calls = 2
        /\ th[t].invoked = 0
        /\ th[t].slept = 1
        /\ heap[1].state = "open"
        /\ heap[1].last_failure_time < now
        /\ heap[1].failure_count = heap[1].config.failure_threshold

(***************************************************************************)
(* C35.  With one caller, an operation that always raises and a clock that *)
(* stays below recovery_timeout, the operation is started only while the   *)
(* new name's breaker is Closed with failure_count below failure_threshold *)
(* T; each start is recorded as one failure before the next attempt, and   *)
(* nothing clears the count, so failure_count is the number of starts:     *)
(* it never exceeds T, the breaker opens at T, and every attempt from then *)
(* on, the rest of the opening call's attempts included, is rejected       *)
(* without starting the operation.                                         *)
(***************************************************************************)
C35_InvokesThresholdTimes ==
    /\ [](\A i \in 1 .. Len(heap) :
             /\ heap[i].failure_count <= heap[i].config.failure_threshold
             /\ Settled(i) =>
                   (heap[i].state = "open" <=>
                       heap[i].failure_count = heap[i].config.failure_threshold)
             /\ now - heap[i].last_failure_time < Seconds(heap[i].config.recovery_timeout)
             /\ th[1].cb = i =>
                   th[1].invoked <= heap[i].failure_count
                        + (IF th[1].pc \in {"running", "on_failure"} THEN 1 ELSE 0))
    /\ [][LET r == th[1]
              q == th'[1]
          IN  /\ q.invoked # r.invoked /\ q.via = "execute" /\ r.via = "execute" =>
                    /\ Allows(1)
                    /\ q.invoked = r.invoked + 1
                    /\ Breaker(1).state = "closed"
                    /\ Breaker(1).failure_count < Breaker(1).config.failure_threshold
              /\ (Allows(1) /\ Breaker(1).state = "open") =>
                    /\ q.pc = "rejected"
                    /\ q.invoked = r.invoked
              /\ OperationEnds(1) => q.pc = "on_failure"
              /\ (\E i \in 1 .. Len(heap) :
                     heap'[i].failure_count # heap[i].failure_count) =>
                    /\ CountsFailure(1)
                    /\ BreakerAfter(1).failure_count = Breaker(1).failure_count + 1
              /\ CountsFailure(1) => q.pc = "on_failure_time"
              /\ StampsFailure(1) => q.pc = "on_failure_trip"
              /\ RecordsFailure(1) =>
                    /\ BreakerAfter(1).failure_count = Breaker(1).failure_count + 1
                    /\ BreakerAfter(1).state =
                          IF BreakerAfter(1).failure_count
                                = BreakerAfter(1).config.failure_threshold
                          THEN "open" ELSE "closed"]_vars

\* The default threshold of 5 was reached in the second call, whose last
\* attempt was rejected; a later call has had all its three attempts
\* rejected without starting the operation.
C35_Witness ==
    /\ th[1].via = "execute"
    /\ th[1].pc = "done"
    /\ th[1].calls = DefaultMaxAttempts
    /\ th[1].invoked = 0
    /\ IsRejection(th[1].result.error)
    /\ heap[1].config = DefaultCircuitBreakerConfig
    /\ heap[1].state = "open"
    /\ heap[1].failure_count = DefaultFailureThreshold

(***************************************************************************)
(* C36.  An attempt made on an Open breaker once time.time() has reached   *)
(* last_failure_time + recovery_timeout is admitted and starts its         *)
(* operation; and with a caller that keeps calling, no failure being       *)
(* recorded while the breaker rejects, a breaker that is Open with         *)
(* last_failure_time + recovery_timeout within the clock's range does not  *)
(* stay Open: an attempt is admitted and the breaker goes HalfOpen.        *)
(***************************************************************************)
C36_OpenRecovers ==
    /\ [][(/\ Allows(1)
           /\ Breaker(1).state = "open"
           /\ now >= Breaker(1).last_failure_time + Seconds(Breaker(1).config.recovery_timeout)) =>
              /\ th'[1].pc = "running"
              /\ th'[1].invoked = th[1].invoked + 1
              /\ BreakerAfter(1).state = "half_open"]_vars
    /\ [][(heap[1].state = "open" /\ heap'[1].state = "open") =>
              heap'[1].last_failure_time = heap[1].last_failure_time]_vars
    /\ (heap[1].state = "open"
          /\ heap[1].last_failure_time + Seconds(heap[1].config.recovery_timeout) <= Seconds(MaxTime))
          ~> (heap[1].state = "half_open" /\ th[1].pc = "running")

\* A call's first attempt was rejected; after the retry loop's sleep the
\* clock is at last_failure_time + recovery_timeout and the second attempt
\* has been admitted: the operation is running on the HalfOpen breaker.
C36_Witness ==
    /\ th[1].pc = "running"
    /\ th[1].attempt = 1
    /\ IsRejection(th[1].last_exception)
    /\ heap[1].state = "half_open"
    /\ now = heap[1].last_failure_time + Seconds(heap[1].config.recovery_timeout)

\* Thread t's operation ends in this step with an error that is no
\* instance of its breaker's config.expected_exception.
RaisesUnexpected(t) ==
    /\ OperationEnds(t)
    /\ th'[t].exc # NoError
    /\ ~IsInstance(th'[t].exc.cls, Breaker(t).config.expected_exception)

(***************************************************************************)
(* C37.  An error of the operation that is no instance of                  *)
(* config.expected_exception passes call() without _on_success or          *)
(* _on_failure: the breaker's state, failure_count and last_failure_time   *)
(* are as before (a HalfOpen breaker stays HalfOpen) and _on_failure runs  *)
(* only for instances of expected_exception; the retry loop catches the    *)
(* error like any other: it sleeps and takes the next attempt, or raises   *)
(* the error to the caller when the attempt was the last.                  *)
(***************************************************************************)
C37_UnexpectedErrorNotRecorded ==
    [][\A t \in Threads :
          LET r == th[t]
              q == th'[t]
          IN  r.via = "execute" =>
                /\ RaisesUnexpected(t) =>
                      /\ q.pc = "caught"
                      /\ heap' = heap
                /\ RecordsFailure(t) =>
                      IsInstance(r.exc.cls, Breaker(t).config.expected_exception)
                /\ (/\ r.pc = "caught"
                    /\ q.pc # "caught"
                    /\ ~IsRejection(r.exc)
                    /\ ~IsInstance(r.exc.cls, Breaker(t).config.expected_exception)) =>
                      /\ heap' = heap
                      /\ IF r.attempt = r.rh.max_attempts - 1
                         THEN /\ q.pc = "done"
                              /\ q.result = [status |-> "raised", error |-> r.exc]
                         ELSE /\ q.pc = "sleeping"
                              /\ q.attempt = r.attempt
                              /\ q.last_exception = r.exc]_vars

\* The first attempt, admitted on the HalfOpen breaker, ended with a
\* ValueError where ConnectionError is expected; after the sleep the
\* caller is at its second attempt and the breaker is still HalfOpen with
\* its count and failure time.
C37_Witness ==
    \E t \in Threads :
        /\ th[t].via = "execute"
        /\ th[t].pc = "attempt"
        /\ th[t].attempt = 1
        /\ th[t].slept = 1
        /\ th[t].last_exception = OperationError("ValueError", 0)
        /\ heap[1].config.expected_exception = "ConnectionError"
        /\ heap[1].state = "half_open"
        /\ heap[1].failure_count = heap[1].config.failure_threshold
        /\ heap[1].last_failure_time < now

(***************************************************************************)
(* C38.  get_circuit_breaker and get_retry_handler on a registered name    *)
(* return what is registered and make nothing, whatever config the call    *)
(* passes: no step changes the config of a registered breaker, the         *)
(* instance a name is bound to, or a registered retry config; what is      *)
(* first made for a name has the config of that first call (the defaults   *)
(* when execute_with_resilience makes it), and execute_with_resilience     *)
(* runs with the breaker and the retry config that are registered.         *)
(***************************************************************************)
C38_FirstConfigStays ==
    [][LET r == th[1]
           q == th'[1]
           name == r.service_name
       IN  /\ \A n \in DOMAIN circuit_breakers :
                 /\ circuit_breakers'[n] = circuit_breakers[n]
                 /\ heap'[circuit_breakers[n]].config = heap[circuit_breakers[n]].config
           /\ \A n \in DOMAIN retry_handlers :
                 retry_handlers'[n] = retry_handlers[n]
           /\ (r.pc = "gcb_check" /\ q.pc # "gcb_check"
                 /\ name \in DOMAIN circuit_breakers) =>
                 /\ q.pc = "gcb_return"
                 /\ heap' = heap
           /\ (r.pc = "grh_check" /\ q.pc # "grh_check"
                 /\ name \in DOMAIN retry_handlers) =>
                 q.pc = "grh_return"
           /\ (r.pc = "gcb_create" /\ q.pc # "gcb_create") =>
                 /\ name \notin DOMAIN circuit_breakers
                 /\ heap'[circuit_breakers'[name]] = NewCircuitBreaker(r.config)
                 /\ r.via = "execute" => r.config = DefaultCircuitBreakerConfig
           /\ (r.pc = "grh_create" /\ q.pc # "grh_create") =>
                 /\ name \notin DOMAIN retry_handlers
                 /\ retry_handlers'[name] = r.rh
                 /\ r.via = "execute" => r.rh = DefaultRetryConfig
           /\ (r.pc = "gcb_return" /\ q.pc # "gcb_return") =>
                 q.cb = circuit_breakers[name]
           /\ (r.pc = "grh_return" /\ q.pc # "grh_return") =>
                 q.rh = retry_handlers[name]]_vars

\* get_circuit_breaker("svc", c) with a config other than the one "svc" was
\* made with has returned the breaker of the first call, with that call's
\* config and the failure recorded since; the retry config registered for
\* "svc" is the caller's, not the default.
C38_Witness ==
    /\ th[1].via = "get_circuit_breaker"
    /\ th[1].pc = "done"
    /\ th[1].service_name = "svc"
    /\ th[1].cb = circuit_breakers["svc"]
    /\ th[1].config.failure_threshold = 1
    /\ heap[th[1].cb].config.failure_threshold = 2
    /\ heap[th[1].cb].failure_count = 1
    /\ "svc" \in DOMAIN retry_handlers
    /\ retry_handlers["svc"] # DefaultRetryConfig

====
